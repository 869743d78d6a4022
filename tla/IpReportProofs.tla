---------------------------- MODULE IpReportProofs ----------------------------
(***************************************************************************)
(* Theorems about IpReport, for texts of any length and arrays of any size: *)
(* what the two parsers read of a text is what is written in it, in place, *)
(* and the two calls carry it.  The parsers walk a text as machines do     *)
(* (TextProofs), so that what they compute is shown by induction on it.    *)
(***************************************************************************)
EXTENDS IpReport, TextProofs

------------------------------------------------------------------------------
(* The loop of the parsers, driven by the entries. *)
Entered(T) == T \cup {None}
ParseStep(max, out, e) == IF Len(out) < max /\ e # None THEN Append(out, e) ELSE out
ParseMachine(T, max) ==
  [e \in Entered(T) |-> [out \in Seq(T) |-> ParseStep(max, out, e)]]

(* It stays among the lists of what can be read. *)
LEMMA ParseMachineType ==
  ASSUME NEW T, NEW max
  PROVE  /\ ParseMachine(T, max) \in Machines(Entered(T), Seq(T))
         /\ \A e \in Entered(T), out \in Seq(T) :
              /\ ParseStep(max, out, e) \in Seq(T)
              /\ ParseMachine(T, max)[e][out] = ParseStep(max, out, e)
<1>1. ASSUME NEW e \in Entered(T), NEW out \in Seq(T) PROVE ParseStep(max, out, e) \in Seq(T)
  BY DEF ParseStep, Entered
<1> QED
  BY <1>1 DEF ParseMachine, Machines

LEMMA ParseDrive ==
  ASSUME NEW T, NEW max, NEW C, C = Entered(T), NEW entries \in Seq(C)
  PROVE  Parse(entries, max) = Drive(ParseMachine(T, max), <<>>, entries)
<1> DEFINE n     == Len(entries)
           A     == Seq(T)
           op    == ParseMachine(T, max)
           start == <<>>
           made[i \in 0 .. n] ==
             IF i = 0 THEN start ELSE ParseStep(max, made[i - 1], entries[i])
<1>1. n \in Nat /\ \A i \in 1 .. n : entries[i] \in C
  OBVIOUS
<1>2. Parse(entries, max) = made[n]
  BY DEF Parse, Along, ParseStep
<1>3. /\ op \in Machines(C, A)
      /\ \A e \in C, out \in A : op[e][out] = ParseStep(max, out, e)
  BY ParseMachineType
<1>4. start \in A
  OBVIOUS
<1> HIDE DEF op, A, n, start
<1>5. PICK g \in [0 .. n -> A] :
        /\ g[0] = start
        /\ \A i \in 1 .. n : g[i] = op[entries[i]][g[i - 1]]
  BY <1>3, <1>4, DriveTrace DEF n
<1>6. g = [i \in 0 .. n |-> IF i = 0 THEN start ELSE ParseStep(max, g[i - 1], entries[i])]
  <2>1. ASSUME NEW i \in 1 .. n PROVE g[i] = ParseStep(max, g[i - 1], entries[i])
    <3>1. i - 1 \in 0 .. n
      BY <1>1
    <3>2. g[i - 1] \in A /\ entries[i] \in C
      BY <1>1, <1>5, <3>1
    <3>3. g[i] = op[entries[i]][g[i - 1]]
      BY <1>5
    <3> QED
      BY <1>3, <3>2, <3>3
  <2>2. \A i \in 0 .. n : i # 0 => i \in 1 .. n
    BY <1>1
  <2>3. g = [i \in 0 .. n |-> g[i]]
    BY <1>5
  <2> QED
    BY <1>5, <2>1, <2>2, <2>3
<1>7. made = [i \in 0 .. n |-> IF i = 0 THEN start ELSE ParseStep(max, made[i - 1], entries[i])]
  BY <1>6
<1> HIDE DEF made
<1>8. made[0] = start
  <2>1. 0 \in 0 .. n
    BY <1>1
  <2> QED
    BY <1>7, <2>1
<1>9. ASSUME NEW i \in 1 .. n, made[i - 1] \in A PROVE made[i] = op[entries[i]][made[i - 1]]
  <2>1. i \in 0 .. n /\ i # 0
    BY <1>1
  <2>2. made[i] = ParseStep(max, made[i - 1], entries[i])
    BY <1>7, <2>1
  <2> QED
    BY <1>1, <1>3, <1>9, <2>2
<1>10. made[n] = Drive(op, start, entries)
  BY <1>3, <1>4, <1>8, <1>9, DriveUnique DEF n
<1> QED
  BY <1>2, <1>10 DEF A, op, start

(* What is parsed are the entries that can be read, up to max. *)
Readable(entries) == {i \in 1 .. Len(entries) : entries[i] # None}
ParsedAt(at, out, entries, max) ==
  /\ \A k \in 1 .. Len(out) : at[k] \in Readable(entries) /\ out[k] = entries[at[k]]
  /\ InPlace(at, Len(out), Readable(entries), max)

(* One more entry keeps that. *)
LEMMA ParsedMore ==
  ASSUME NEW T, None \notin T, NEW max \in Nat, NEW C, C = Entered(T),
         NEW entries \in Seq(C), NEW e \in C, NEW out \in Seq(T),
         NEW at, ParsedAt(at, out, entries, max)
  PROVE  \E at2 : ParsedAt(at2, ParseStep(max, out, e), Append(entries, e), max)
<1> DEFINE n    == Len(entries)
           m    == Len(out)
           more == Append(entries, e)
           out2 == Append(out, e)
           R    == Readable(entries)
           R2   == Readable(more)
           at2  == [k \in 1 .. m + 1 |-> IF k = m + 1 THEN n + 1 ELSE at[k]]
<1>1. /\ n \in Nat /\ m \in Nat /\ Len(more) = n + 1 /\ more[n + 1] = e
      /\ \A i \in 1 .. n : more[i] = entries[i]
  OBVIOUS
<1>2. \A k \in 1 .. m : at[k] \in R /\ out[k] = entries[at[k]]
  BY DEF ParsedAt
<1>3. /\ m <= max
      /\ \A k, l \in 1 .. m : k < l => at[k] < at[l]
      /\ \A i \in R : (\E k \in 1 .. m : at[k] = i) \/ (m = max /\ \A k \in 1 .. m : at[k] < i)
  BY DEF ParsedAt, InPlace
<1> HIDE DEF n, m, more, out2
<1>4. /\ R2 = IF e = None THEN R ELSE R \cup {n + 1}
      /\ R \subseteq 1 .. n
  <2>1. \A i \in 1 .. n + 1 : i \in 1 .. n \/ i = n + 1
    BY <1>1
  <2>2. n + 1 \in 1 .. n + 1 /\ \A i \in 1 .. n : i \in 1 .. n + 1
    BY <1>1
  <2>3. R = {i \in 1 .. n : entries[i] # None} /\ R2 = {i \in 1 .. n + 1 : more[i] # None}
    BY <1>1 DEF Readable, n
  <2> HIDE DEF R, R2
  <2> QED
    BY <1>1, <2>1, <2>2, <2>3
<1> HIDE DEF R, R2
<1>5. \A i \in R : more[i] = entries[i]
  BY <1>1, <1>4
<1>6. CASE e = None
  <2>1. ParseStep(max, out, e) = out
    BY <1>6 DEF ParseStep
  <2>2. ParsedAt(at, out, more, max)
    BY <1>2, <1>3, <1>4, <1>5, <1>6 DEF ParsedAt, InPlace, m, R2
  <2> QED
    BY <2>1, <2>2 DEF more
<1>7. CASE e # None /\ m < max
  <2>1. ParseStep(max, out, e) = out2
    BY <1>7 DEF ParseStep, m, out2
  <2>2. Len(out2) = m + 1 /\ out2[m + 1] = e /\ \A k \in 1 .. m : out2[k] = out[k]
    <3>1. e \in T
      BY <1>7 DEF Entered
    <3> QED
      BY <3>1 DEF m, out2
  <2>3. \A k \in 1 .. m + 1 : k \in 1 .. m \/ k = m + 1
    BY <1>1
  <2>4. at2[m + 1] = n + 1 /\ \A k \in 1 .. m : at2[k] = at[k]
    BY <1>1
  <2> HIDE DEF at2
  <2>5. ASSUME NEW k \in 1 .. m + 1 PROVE at2[k] \in R2 /\ out2[k] = more[at2[k]]
    <3>1. CASE k \in 1 .. m
      BY <1>2, <1>4, <1>5, <2>2, <2>4, <3>1
    <3>2. CASE k = m + 1
      BY <1>1, <1>4, <1>7, <2>2, <2>4, <3>2
    <3> QED
      BY <2>3, <3>1, <3>2
  <2>6. ASSUME NEW k \in 1 .. m + 1, NEW l \in 1 .. m + 1, k < l PROVE at2[k] < at2[l]
    <3>1. k \in 1 .. m
      BY <1>1, <2>6
    <3>2. CASE l \in 1 .. m
      BY <1>3, <2>4, <2>6, <3>1, <3>2
    <3>3. CASE l = m + 1
      <4>1. at[k] \in 1 .. n
        BY <1>2, <1>4, <3>1
      <4> QED
        BY <1>1, <2>4, <3>1, <3>3, <4>1
    <3> QED
      BY <2>3, <3>2, <3>3
  <2>7. ASSUME NEW i \in R2 PROVE \E k \in 1 .. m + 1 : at2[k] = i
    <3>1. CASE i = n + 1
      <4>1. m + 1 \in 1 .. m + 1
        BY <1>1
      <4> QED
        BY <2>4, <3>1, <4>1
    <3>2. CASE i \in R
      <4>1. PICK k \in 1 .. m : at[k] = i
        BY <1>1, <1>3, <1>7, <3>2
      <4>2. k \in 1 .. m + 1
        BY <1>1
      <4> QED
        BY <2>4, <4>1, <4>2
    <3> QED
      BY <1>4, <1>7, <3>1, <3>2
  <2>8. m + 1 <= max
    BY <1>1, <1>7
  <2>9. ParsedAt(at2, out2, more, max)
    BY <2>2, <2>5, <2>6, <2>7, <2>8 DEF ParsedAt, InPlace, R2
  <2> QED
    BY <2>1, <2>9 DEF more
<1>8. CASE e # None /\ ~(m < max)
  <2>1. ParseStep(max, out, e) = out
    BY <1>8 DEF ParseStep, m
  <2>2. m = max
    BY <1>1, <1>3, <1>8
  <2>3. ASSUME NEW k \in 1 .. m PROVE at[k] < n + 1
    <3>1. at[k] \in 1 .. n
      BY <1>2, <1>4
    <3> QED
      BY <1>1, <3>1
  <2>4. ParsedAt(at, out, more, max)
    BY <1>2, <1>3, <1>4, <1>5, <1>8, <2>2, <2>3, ZenonT(60) DEF ParsedAt, InPlace, m, R2
  <2> QED
    BY <2>1, <2>4 DEF more
<1> QED
  BY <1>6, <1>7, <1>8

(* Hence the loop ends with them. *)
LEMMA Parsed ==
  ASSUME NEW T, None \notin T, NEW max \in Nat, NEW C, C = Entered(T), NEW entries \in Seq(C)
  PROVE  /\ Parse(entries, max) \in Seq(T)
         /\ \E at : ParsedAt(at, Parse(entries, max), entries, max)
<1> DEFINE A  == Seq(T)
           op == ParseMachine(T, max)
           Read(x) == Drive(op, <<>>, x)
           S  == {x \in Seq(C) : Read(x) \in A /\ \E at : ParsedAt(at, Read(x), x, max)}
<1>1. /\ op \in Machines(C, A) /\ <<>> \in A
      /\ \A e \in C, out \in A : op[e][out] = ParseStep(max, out, e) /\ ParseStep(max, out, e) \in A
  BY ParseMachineType
<1>2. <<>> \in S
  <2>1. Read(<<>>) = <<>>
    <3> HIDE DEF A, op
    <3> QED
      BY <1>1, DriveEmpty
  <2>2. ParsedAt(<<>>, <<>>, <<>>, max)
    BY DEF ParsedAt, InPlace, Readable
  <2>3. <<>> \in Seq(C)
    OBVIOUS
  <2> HIDE DEF Read
  <2> QED
    BY <1>1, <2>1, <2>2, <2>3
<1>3. ASSUME NEW x \in Seq(C), NEW e \in C, x \in S PROVE Append(x, e) \in S
  <2>1. Read(x) \in A /\ Read(Append(x, e)) = op[e][Read(x)]
    <3> HIDE DEF A, op
    <3> QED
      BY <1>1, DriveAppend
  <2> HIDE DEF op, Read
  <2>2. Read(Append(x, e)) = ParseStep(max, Read(x), e) /\ Read(Append(x, e)) \in A
    BY <1>1, <2>1
  <2>3. PICK at : ParsedAt(at, Read(x), x, max)
    BY <1>3
  <2>4. \E at2 : ParsedAt(at2, ParseStep(max, Read(x), e), Append(x, e), max)
    BY <2>1, <2>3, ParsedMore
  <2>5. Append(x, e) \in Seq(C)
    OBVIOUS
  <2> QED
    BY <2>2, <2>4, <2>5
<1>4. Seq(C) \subseteq S
  <2> HIDE DEF S
  <2> QED
    BY <1>2, <1>3, TextInduction
<1>5. Parse(entries, max) = Read(entries)
  BY ParseDrive
<1> QED
  BY <1>4, <1>5

------------------------------------------------------------------------------
(* A token of a text, where it was found. *)
LEMMA SubSeqIs ==
  ASSUME NEW C, NEW text \in Seq(C), NEW i \in 1 .. Len(text), NEW j \in i .. Len(text)
  PROVE  /\ SubSeq(text, i, j) \in Seq(C) /\ Len(SubSeq(text, i, j)) = (j - i) + 1
         /\ SubSeq(text, i, j) = [k \in 1 .. (j - i) + 1 |-> text[(i + k) - 1]]
OBVIOUS

(* A word of a text is its entry where it begins. *)
LEMMA EntryFound ==
  ASSUME NEW C, NEW text \in Seq(C), NEW w, NEW i, NEW j, Segment(text, {Comma}, w, i, j)
  PROVE  i \in Starts(text) /\ EntryAt(text, i) = w
<1> DEFINE n == Len(text)
           Ends(x) == /\ \A k \in DOMAIN x : x[k] # Comma
                      /\ i + Len(x) > n \/ text[i + Len(x)] = Comma
           Cut(l) == SubSeq(text, i, l)
           Cuts == {Cut(l) : l \in i .. n}
<1>1. /\ n \in Nat /\ DOMAIN text = 1 .. n
  OBVIOUS
<1>2. /\ i \in 1 .. n /\ j \in i .. n /\ text[i] # Comma /\ (i = 1 \/ text[i - 1] = Comma)
      /\ w = [k \in 1 .. (j - i) + 1 |-> text[(i + k) - 1]]
      /\ \A k \in i .. j : text[k] # Comma
      /\ j < n => text[j + 1] = Comma
  BY DEF Segment, WordStarts
<1>3. i \in Starts(text)
  BY <1>1, <1>2 DEF Starts
<1> HIDE DEF n
<1>4. i \in Nat /\ j \in Nat /\ i <= j /\ j <= n /\ 1 <= i
  BY <1>1, <1>2
<1>5. ASSUME NEW l \in i .. n
      PROVE  /\ Len(Cut(l)) = (l - i) + 1 /\ DOMAIN Cut(l) = 1 .. (l - i) + 1
             /\ Cut(l) = [k \in 1 .. (l - i) + 1 |-> text[(i + k) - 1]]
  <2>1. i \in 1 .. Len(text) /\ l \in i .. Len(text)
    BY <1>2 DEF n
  <2>2. /\ Len(Cut(l)) = (l - i) + 1
        /\ Cut(l) = [k \in 1 .. (l - i) + 1 |-> text[(i + k) - 1]]
    BY <2>1, SubSeqIs
  <2> HIDE DEF Cut
  <2> QED
    BY <2>2
<1>6. w = Cut(j)
  BY <1>2, <1>5
<1> HIDE DEF Cut
<1>7. w \in Cuts /\ Ends(w)
  <2>1. Len(w) = (j - i) + 1 /\ DOMAIN w = 1 .. (j - i) + 1
    BY <1>2, <1>5, <1>6
  <2>2. i + Len(w) = j + 1
    BY <1>4, <2>1
  <2>3. ASSUME NEW k \in DOMAIN w PROVE w[k] # Comma
    <3>1. k \in 1 .. (j - i) + 1 /\ (i + k) - 1 \in i .. j
      BY <1>4, <2>1
    <3> QED
      BY <1>2, <3>1
  <2>4. i + Len(w) > n \/ text[i + Len(w)] = Comma
    BY <1>1, <1>2, <1>4, <2>2
  <2> QED
    BY <1>2, <1>6, <2>3, <2>4
<1>8. ASSUME NEW l \in i .. n, Ends(Cut(l)) PROVE l = j
  <2>1. l \in Nat /\ i + Len(Cut(l)) = l + 1 /\ i <= l /\ l <= n
    BY <1>1, <1>4, <1>5
  <2>2. l + 1 > n \/ text[l + 1] = Comma
    BY <1>8, <2>1
  <2>3. CASE l < j
    <3>1. l + 1 \in i .. j /\ ~(l + 1 > n)
      BY <1>1, <1>4, <2>1, <2>3
    <3> QED
      BY <1>2, <2>2, <3>1
  <2>4. CASE j < l
    <3>1. j + 1 \in i .. l /\ (j + 1 - i) + 1 \in 1 .. (l - i) + 1 /\ j < n
          /\ (i + ((j + 1 - i) + 1)) - 1 = j + 1
      BY <1>1, <1>4, <2>1, <2>4
    <3>2. Cut(l)[(j + 1 - i) + 1] = text[j + 1]
      BY <1>5, <3>1
    <3>3. Cut(l)[(j + 1 - i) + 1] # Comma
      BY <1>5, <1>8, <3>1
    <3> QED
      BY <1>2, <3>1, <3>2, <3>3
  <2> QED
    BY <1>4, <2>1, <2>3, <2>4
<1>9. EntryAt(text, i) = CHOOSE x \in Cuts : Ends(x)
  BY DEF EntryAt, Cut, n
<1>10. \A x \in Cuts : Ends(x) => x = w
  <2> SUFFICES ASSUME NEW l \in i .. n, Ends(Cut(l)) PROVE Cut(l) = w
    OBVIOUS
  <2> QED
    BY <1>6, <1>8
<1> QED
  <2> HIDE DEF Ends, Cuts
  <2> QED
    BY <1>3, <1>7, <1>9, <1>10

(* places are those of the entries that can be read ... *)
Apart(text, entries, places) ==
  /\ Len(entries) = Len(Words(text, {Comma})) /\ places \subseteq Starts(text)
  /\ \A k \in 1 .. Len(entries) : \A i \in Starts(text) :
       EntryAt(text, i) = Words(text, {Comma})[k] => (i \in places <=> entries[k] # None)

(* ... and out is what was read at them. *)
TakenFrom(text, out, entries, places, max) ==
  \E at \in [DOMAIN out -> places] :
    /\ InPlace(at, Len(out), places, max)
    /\ \A k \in DOMAIN out : \E l \in 1 .. Len(entries) :
         /\ out[k] = entries[l] /\ entries[l] # None
         /\ EntryAt(text, at[k]) = Words(text, {Comma})[l]

LEMMA InPlaceOfText ==
  ASSUME NEW D, NEW text \in Seq(D), NEW T, None \notin T, NEW max \in Nat,
         NEW C, C = Entered(T), NEW entries \in Seq(C),
         NEW places, Apart(text, entries, places),
         NEW out, out = Parse(entries, max)
  PROVE  out \in Seq(T) /\ TakenFrom(text, out, entries, places, max)
<1> DEFINE words == Words(text, {Comma})
           n     == Len(entries)
           m     == Len(out)
<1>0. /\ n = Len(words) /\ places \subseteq Starts(text)
      /\ \A k \in 1 .. n : \A i \in Starts(text) :
           EntryAt(text, i) = words[k] => (i \in places <=> entries[k] # None)
  BY DEF Apart
<1>1. PICK begins, ends : Segments(text, {Comma}, words, begins, ends)
  BY WordsSegmented
<1>2. out \in Seq(T)
  BY Parsed
<1>3. PICK read : ParsedAt(read, out, entries, max)
  BY Parsed
<1>4. /\ n \in Nat /\ m \in Nat /\ DOMAIN out = 1 .. m
  BY <1>2
<1> HIDE DEF words, n, m
<1>5. ASSUME NEW k \in 1 .. n
      PROVE  /\ begins[k] \in Starts(text) /\ EntryAt(text, begins[k]) = words[k]
             /\ begins[k] <= ends[k] /\ begins[k] \in Nat /\ ends[k] \in Nat
  <2>1. Segment(text, {Comma}, words[k], begins[k], ends[k])
    BY <1>0, <1>1 DEF Segments, words, n
  <2>2. /\ begins[k] \in Nat /\ ends[k] \in Nat /\ begins[k] <= ends[k]
    <3>1. begins[k] \in 1 .. Len(text) /\ ends[k] \in begins[k] .. Len(text) /\ Len(text) \in Nat
      BY <2>1 DEF Segment, WordStarts
    <3> QED
      BY <3>1
  <2> QED
    BY <2>1, <2>2, EntryFound
<1>6. \A k, l \in 1 .. n : k < l => begins[k] < begins[l]
  <2> SUFFICES ASSUME NEW k \in 1 .. n, NEW l \in 1 .. n, k < l PROVE begins[k] < begins[l]
    OBVIOUS
  <2>1. ends[k] < begins[l]
    BY <1>0, <1>1 DEF Segments, words, n
  <2>2. /\ begins[k] <= ends[k] /\ begins[k] \in Nat /\ ends[k] \in Nat /\ begins[l] \in Nat
    BY <1>5
  <2> QED
    BY <2>1, <2>2
<1>7. \A i \in Starts(text) : \E k \in 1 .. n : begins[k] = i
  <2>1. \A i \in WordStarts(text, {Comma}) : \E k \in 1 .. n : begins[k] = i
    BY <1>0, <1>1 DEF Segments, words, n
  <2>2. Starts(text) = WordStarts(text, {Comma})
    BY DEF Starts, WordStarts
  <2> QED
    BY <2>1, <2>2
<1>8. \A k \in 1 .. n : begins[k] \in places <=> entries[k] # None
  BY <1>0, <1>5
<1>9. Readable(entries) = {k \in 1 .. n : entries[k] # None}
  BY DEF Readable, n
<1>10. /\ \A k \in 1 .. m : read[k] \in Readable(entries) /\ out[k] = entries[read[k]]
       /\ m <= max
       /\ \A k, l \in 1 .. m : k < l => read[k] < read[l]
       /\ \A k \in Readable(entries) :
            (\E l \in 1 .. m : read[l] = k) \/ (m = max /\ \A l \in 1 .. m : read[l] < k)
  BY <1>3 DEF ParsedAt, InPlace, m
<1> DEFINE at == [k \in 1 .. m |-> begins[read[k]]]
<1>11. \A k \in 1 .. m : read[k] \in 1 .. n /\ at[k] = begins[read[k]] /\ at[k] \in places
  BY <1>8, <1>9, <1>10
<1>12. at \in [1 .. m -> places]
  BY <1>11
<1> HIDE DEF at
<1>13. \A k, l \in 1 .. m : k < l => at[k] < at[l]
  BY <1>6, <1>10, <1>11
<1>14. ASSUME NEW i \in places
       PROVE  (\E k \in 1 .. m : at[k] = i) \/ (m = max /\ \A k \in 1 .. m : at[k] < i)
  <2>1. PICK k \in 1 .. n : begins[k] = i
    BY <1>0, <1>7
  <2>2. k \in Readable(entries)
    BY <1>8, <1>9, <2>1
  <2>3. CASE \E l \in 1 .. m : read[l] = k
    BY <1>11, <2>1, <2>3
  <2>4. CASE m = max /\ \A l \in 1 .. m : read[l] < k
    BY <1>6, <1>11, <2>1, <2>4
  <2> QED
    BY <1>10, <2>2, <2>3, <2>4
<1>15. InPlace(at, m, places, max)
  BY <1>10, <1>13, <1>14 DEF InPlace
<1>16. \A k \in 1 .. m : /\ read[k] \in 1 .. n
                         /\ out[k] = entries[read[k]] /\ entries[read[k]] # None
                         /\ EntryAt(text, at[k]) = words[read[k]]
  BY <1>5, <1>9, <1>10, <1>11
<1>17. /\ at \in [DOMAIN out -> places] /\ InPlace(at, Len(out), places, max)
       /\ \A k \in DOMAIN out : \E l \in 1 .. Len(entries) :
            /\ out[k] = entries[l] /\ entries[l] # None
            /\ EntryAt(text, at[k]) = Words(text, {Comma})[l]
  BY <1>4, <1>12, <1>15, <1>16 DEF words, n, m
<1> QED
  BY <1>2, <1>17 DEF TakenFrom

------------------------------------------------------------------------------
(* What After and Leading cut a text into. *)
LEMMA AfterOf ==
  ASSUME NEW C, NEW kind, NEW a \in Seq(C), NEW b \in Seq(C),
         \A i \in 1 .. Len(a) : a[i] \in kind, b # <<>> => b[1] \notin kind
  PROVE  /\ After(a \o b, kind) = b /\ Leading(a \o b, kind) = a
<1> DEFINE t == a \o b
           I == {i \in 1 .. Len(t) : t[i] \notin kind}
<1>1. /\ t \in Seq(C) /\ Len(a) \in Nat /\ Len(b) \in Nat /\ Len(t) = Len(a) + Len(b)
      /\ \A i \in 1 .. Len(a) : t[i] = a[i]
      /\ \A i \in 1 .. Len(b) : t[Len(a) + i] = b[i]
  OBVIOUS
<1>2. After(t, kind) = IF Min(I) = 0 \/ I = {} THEN <<>> ELSE SubSeq(t, Min(I), Len(t))
  BY DEF After, SelectInSeq
<1> HIDE DEF t
<1>3. CASE b = <<>>
  <2>1. Len(b) = 0
    BY <1>3
  <2>2. I = {}
    BY <1>1, <2>1
  <2>3. After(t, kind) = <<>>
    BY <1>2, <2>2
  <2>4. t = a
    BY <1>3, ConcatEmpty DEF t
  <2>5. SubSeq(a, 1, Len(a)) = a
    OBVIOUS
  <2>6. Leading(t, kind) = SubSeq(t, 1, Len(t) - Len(<<>>))
    BY <2>3 DEF Leading
  <2> QED
    BY <1>1, <1>3, <2>1, <2>3, <2>4, <2>5, <2>6 DEF t
<1>4. CASE b # <<>>
  <2> DEFINE m == Len(a) + 1
  <2>1. Len(b) \in Nat \ {0} /\ b[1] \notin kind
    BY <1>4
  <2>2. m \in I /\ \A i \in I : m <= i
    <3>1. m \in 1 .. Len(t) /\ t[m] = b[1]
      BY <1>1, <2>1
    <3>2. ASSUME NEW i \in I PROVE m <= i
      BY <1>1, SMTT(30)
    <3> QED
      BY <2>1, <3>1, <3>2
  <2>3. Min(I) = m
    <3>1. I \subseteq Nat
      BY <1>1
    <3>2. Min(I) \in I /\ \A i \in I : Min(I) <= i
      <4> HIDE DEF I
      <4> QED
        BY <2>2, <3>1, Least
    <3>3. Min(I) <= m /\ m <= Min(I) /\ Min(I) \in Nat /\ m \in Nat
      BY <1>1, <2>2, <3>1, <3>2
    <3> HIDE DEF I, m
    <3> QED
      BY <3>3
  <2>4. After(t, kind) = SubSeq(t, m, Len(t))
    <3>1. m # 0 /\ I # {}
      BY <1>1, <2>2
    <3> HIDE DEF I, m
    <3> QED
      BY <1>2, <2>3, <3>1
  <2>5. SubSeq(t, m, Len(t)) = b
    BY <1>1, <2>1
  <2>6. SubSeq(t, 1, Len(a)) = a
    BY <1>1
  <2>7. Leading(t, kind) = SubSeq(t, 1, Len(t) - Len(b))
    BY <2>4, <2>5 DEF Leading
  <2>8. Len(t) - Len(b) = Len(a)
    BY <1>1
  <2> QED
    BY <2>4, <2>5, <2>6, <2>7, <2>8 DEF t
<1> QED
  BY <1>3, <1>4

(* Every text is cut so. *)
LEMMA AfterSplit ==
  ASSUME NEW C, NEW kind, NEW text \in Seq(C)
  PROVE  \E a, b \in Seq(C) :
           /\ text = a \o b /\ Leading(text, kind) = a /\ After(text, kind) = b
           /\ \A i \in 1 .. Len(a) : a[i] \in kind
           /\ b # <<>> => b[1] \notin kind
<1> DEFINE I == {i \in 1 .. Len(text) : text[i] \notin kind}
           n == Len(text)
<1>1. CASE I = {}
  <2>1. \A i \in 1 .. n : text[i] \in kind
    BY <1>1
  <2>2. text = text \o <<>> /\ <<>> \in Seq(C)
    BY ConcatEmpty
  <2>3. <<>> # <<>> => <<>>[1] \notin kind
    OBVIOUS
  <2>4. After(text \o <<>>, kind) = <<>> /\ Leading(text \o <<>>, kind) = text
    BY <2>1, <2>2, <2>3, AfterOf
  <2> QED
    BY <2>1, <2>2, <2>3, <2>4
<1>2. CASE I # {}
  <2> DEFINE m == Min(I)
             a == SubSeq(text, 1, m - 1)
             b == SubSeq(text, m, n)
  <2>1. m \in I /\ \A i \in I : m <= i
    <3>1. I \subseteq Nat
      OBVIOUS
    <3> HIDE DEF I
    <3> QED
      BY <1>2, <3>1, Least
  <2>2. m \in 1 .. n /\ n \in Nat /\ text[m] \notin kind
    BY <2>1
  <2>3. \A i \in 1 .. m - 1 : text[i] \in kind
    <3> SUFFICES ASSUME NEW i \in 1 .. m - 1, text[i] \notin kind PROVE FALSE
      OBVIOUS
    <3>1. m \in Nat /\ i \in 1 .. n /\ i < m
      <4> HIDE DEF m
      <4> QED
        BY <2>2
    <3>2. i \in I
      BY <3>1
    <3>3. m <= i
      BY <2>1, <3>2
    <3> HIDE DEF m, I
    <3> QED
      BY <3>1, <3>3
  <2> HIDE DEF m, n
  <2>4. /\ a \in Seq(C) /\ b \in Seq(C) /\ Len(a) = m - 1 /\ Len(b) = (n - m) + 1
        /\ \A i \in 1 .. Len(a) : a[i] = text[i]
        /\ \A i \in 1 .. Len(b) : b[i] = text[(m - 1) + i]
    BY <2>2 DEF n
  <2> HIDE DEF a, b, I
  <2>5. a \o b = text
    <3>1. Len(text) = Len(a) + Len(b)
      BY <2>2, <2>4 DEF n
    <3>2. /\ \A i \in 1 .. Len(a) : text[i] = a[i]
          /\ \A i \in 1 .. Len(b) : text[Len(a) + i] = b[i]
      BY <2>4
    <3> QED
      BY <2>4, <3>1, <3>2, ConcatIs
  <2>6. /\ \A i \in 1 .. Len(a) : a[i] \in kind
        /\ b # <<>> => b[1] \notin kind
    BY <2>2, <2>3, <2>4
  <2>7. After(a \o b, kind) = b /\ Leading(a \o b, kind) = a
    BY <2>4, <2>6, AfterOf
  <2> QED
    BY <2>4, <2>5, <2>6, <2>7
<1> QED
  BY <1>1, <1>2

------------------------------------------------------------------------------
(* The digits and what they are worth. *)
Worth(d) == SelectInSeq(Digits, LAMBDA e : e = d) - 1

LEMMA DigitsAre ==
  /\ ToSet(Digits) = {"0", "1", "2", "3", "4", "5", "6", "7", "8", "9"}
  /\ Len(Digits) = 10
  /\ \A i \in 1 .. 10 : Digits[i] \in ToSet(Digits)
BY DEF Digits, ToSet

LEMMA DigitsDiffer ==
  ASSUME NEW i \in 1 .. 10, NEW j \in 1 .. 10, Digits[i] = Digits[j]
  PROVE  i = j
BY DEF Digits

(* Each is worth one less than its place. *)
LEMMA WorthIs ==
  ASSUME NEW i \in 1 .. 10
  PROVE  Worth(Digits[i]) = i - 1
<1> DEFINE I == {j \in 1 .. Len(Digits) : Digits[j] = Digits[i]}
<1>1. I = {i}
  BY DigitsAre, DigitsDiffer
<1>2. Worth(Digits[i]) = (IF I # {} THEN Min(I) ELSE 0) - 1
  BY DEF Worth, SelectInSeq
<1>3. Min({i}) = i
  BY Least
<1> HIDE DEF I
<1> QED
  BY <1>1, <1>2, <1>3

LEMMA DigitIs ==
  ASSUME NEW d \in ToSet(Digits)
  PROVE  \E i \in 1 .. 10 : d = Digits[i] /\ Worth(d) = i - 1
<1>1. PICK i \in 1 .. 10 : d = Digits[i]
  BY DigitsAre DEF ToSet
<1> QED
  BY <1>1, WorthIs

(* The number that digits make, read by a machine. *)
Numerals == ToSet(Digits)
NumberMachine == [d \in Numerals |-> [n \in Nat |-> 10 * n + Worth(d)]]
Number(digits) == Drive(NumberMachine, 0, digits)

LEMMA NumberMachineType ==
  /\ NumberMachine \in Machines(Numerals, Nat)
  /\ \A d \in Numerals, n \in Nat : NumberMachine[d][n] = 10 * n + Worth(d)
  /\ 0 \in Nat
<1>1. ASSUME NEW d \in Numerals, NEW n \in Nat PROVE 10 * n + Worth(d) \in Nat
  <2>1. PICK i \in 1 .. 10 : d = Digits[i] /\ Worth(d) = i - 1
    BY DigitIs DEF Numerals
  <2> QED
    BY <2>1
<1> QED
  BY <1>1 DEF NumberMachine, Machines

LEMMA WorthInt ==
  ASSUME NEW d, NEW I, I = {k \in 1 .. Len(Digits) : Digits[k] = d},
         NEW w, w = IF I # {} THEN Min(I) ELSE 0
  PROVE  w \in Int
<1>1. I \subseteq Nat
  BY DigitsAre
<1>2. CASE I # {}
  <2>1. Min(I) \in I
    BY <1>1, <1>2, Least
  <2>2. Min(I) \in Nat
    BY <1>1, <2>1
  <2> QED
    BY <1>2, <2>2
<1> QED
  BY <1>2

(* The machine computes what strtol adds up. *)
LEMMA NumberDrive ==
  ASSUME NEW digits \in Seq(Numerals)
  PROVE  LET Add(n, d) == 10 * n + SelectInSeq(Digits, LAMBDA e : e = d) - 1
         IN Along(Add, 0, digits) = Number(digits)
<1> DEFINE m == Len(digits)
           Made == LET Add(k, d) == 10 * k + SelectInSeq(Digits, LAMBDA e : e = d) - 1
                   IN Along(Add, 0, digits)
           op == NumberMachine
           made[i \in 0 .. m] ==
             IF i = 0 THEN 0
             ELSE 10 * made[i - 1] + SelectInSeq(Digits, LAMBDA e : e = digits[i]) - 1
<1>1. m \in Nat /\ \A i \in 1 .. m : digits[i] \in Numerals
  OBVIOUS
<1>2. Made = made[m]
  BY DEF Along
<1>3. /\ op \in Machines(Numerals, Nat)
      /\ \A d \in Numerals, n \in Nat : op[d][n] = 10 * n + Worth(d)
      /\ 0 \in Nat
  BY NumberMachineType
<1> DEFINE A == Nat
           start == 0
<1>10. op \in Machines(Numerals, A) /\ start \in A /\ digits \in Seq(Numerals)
  BY <1>3
<1> HIDE DEF op, m, A, start
<1>11. PICK h \in [0 .. m -> A] :
        /\ h[0] = start
        /\ \A i \in 1 .. m : h[i] = op[digits[i]][h[i - 1]]
  BY <1>10, DriveTrace DEF m
<1>4. PICK g \in [0 .. m -> Nat] :
        /\ g[0] = 0
        /\ \A i \in 1 .. m : g[i] = op[digits[i]][g[i - 1]]
  BY <1>11, Zenon DEF A, start
<1>5. g = [i \in 0 .. m |-> IF i = 0 THEN 0
             ELSE 10 * g[i - 1] + SelectInSeq(Digits, LAMBDA e : e = digits[i]) - 1]
  <2>1. ASSUME NEW i \in 1 .. m
        PROVE  g[i] = 10 * g[i - 1] + SelectInSeq(Digits, LAMBDA e : e = digits[i]) - 1
    <3> DEFINE w == SelectInSeq(Digits, LAMBDA e : e = digits[i])
    <3>1. i - 1 \in 0 .. m
      BY <1>1
    <3>2. g[i - 1] \in Nat /\ digits[i] \in Numerals
      BY <1>1, <1>4, <3>1
    <3>3. g[i] = 10 * g[i - 1] + Worth(digits[i])
      BY <1>3, <1>4, <3>2
    <3>4. Worth(digits[i]) = w - 1
      BY DEF Worth
    <3>5. w \in Int
      BY WorthInt DEF SelectInSeq
    <3> HIDE DEF w
    <3>6. g[i] = 10 * g[i - 1] + w - 1
      BY <3>2, <3>3, <3>4, <3>5
    <3> QED
      BY <3>6 DEF w
  <2>2. \A i \in 0 .. m : i # 0 => i \in 1 .. m
    BY <1>1
  <2>3. g = [i \in 0 .. m |-> g[i]]
    BY <1>4
  <2> QED
    BY <1>4, <2>1, <2>2, <2>3
<1>6. made = [i \in 0 .. m |-> IF i = 0 THEN 0
             ELSE 10 * made[i - 1] + SelectInSeq(Digits, LAMBDA e : e = digits[i]) - 1]
  BY <1>5
<1> HIDE DEF made
<1>7. made[0] = 0
  <2>1. 0 \in 0 .. m
    BY <1>1
  <2> QED
    BY <1>6, <2>1
<1>8. ASSUME NEW i \in 1 .. m, made[i - 1] \in Nat PROVE made[i] = op[digits[i]][made[i - 1]]
  <2> DEFINE w == SelectInSeq(Digits, LAMBDA e : e = digits[i])
  <2>1. i \in 0 .. m /\ i # 0
    BY <1>1
  <2>2. made[i] = 10 * made[i - 1] + w - 1
    BY <1>6, <2>1
  <2>3. digits[i] \in Numerals
    BY <1>1
  <2>4. Worth(digits[i]) = w - 1
    BY DEF Worth
  <2>5. w \in Int
    BY WorthInt DEF SelectInSeq
  <2> HIDE DEF w
  <2>6. op[digits[i]][made[i - 1]] = 10 * made[i - 1] + (w - 1)
    BY <1>3, <1>8, <2>3, <2>4
  <2>7. op[digits[i]][made[i - 1]] = 10 * made[i - 1] + w - 1
    BY <1>8, <2>5, <2>6
  <2> QED
    BY <2>2, <2>7
<1>9. made[m] = Drive(op, 0, digits)
  <2>1. made[0] = start
    BY <1>7 DEF start
  <2>2. \A i \in 1 .. Len(digits) : made[i - 1] \in A => made[i] = op[digits[i]][made[i - 1]]
    BY <1>8 DEF A, m
  <2> QED
    BY <1>10, <2>1, <2>2, DriveUnique DEF m, start
<1> QED
  BY <1>2, <1>9 DEF op, Number

(* Zeros before a number change nothing. *)
Zeros(k) == [i \in 1 .. k |-> "0"]

LEMMA ZerosMore ==
  ASSUME NEW k \in Nat
  PROVE  /\ Zeros(k) \in Seq(Numerals) /\ Len(Zeros(k)) = k
         /\ Zeros(k + 1) = Append(Zeros(k), "0")
         /\ Zeros(0) = <<>>
<1>1. "0" \in Numerals
  BY DigitsAre DEF Numerals
<1> DEFINE z == Zeros(k)
<1>2. z \in Seq(Numerals) /\ Len(z) = k /\ z = [i \in 1 .. k |-> "0"]
  BY <1>1 DEF Zeros
<1>3. Append(z, "0") = [i \in 1 .. k + 1 |-> "0"]
  BY <1>2
<1> QED
  BY <1>2, <1>3 DEF Zeros

(* One more digit. *)
LEMMA NumberAppend ==
  ASSUME NEW x \in Seq(Numerals), NEW i \in 1 .. 10
  PROVE  /\ Append(x, Digits[i]) \in Seq(Numerals) /\ Number(x) \in Nat
         /\ Number(Append(x, Digits[i])) = 10 * Number(x) + (i - 1)
         /\ Number(<<>>) = 0
<1> DEFINE op == NumberMachine
           A == Nat
           start == 0
           c == Digits[i]
<1>1. c \in Numerals /\ Worth(c) = i - 1
  BY DigitsAre, WorthIs DEF Numerals
<1>2. op \in Machines(Numerals, A) /\ start \in A
  BY NumberMachineType
<1> HIDE DEF op, A, start, c
<1>3. Drive(op, start, x) \in A /\ Drive(op, start, Append(x, c)) = op[c][Drive(op, start, x)]
  BY <1>1, <1>2, DriveAppend
<1>4. Drive(op, start, <<>>) = start
  BY <1>2, DriveEmpty
<1>5. Number(x) \in Nat
  BY <1>3 DEF Number, A, op, start
<1>6. Number(Append(x, c)) = op[c][Number(x)]
  BY <1>3 DEF Number, op, start
<1>7. op[c][Number(x)] = 10 * Number(x) + Worth(c)
  BY <1>1, <1>5, NumberMachineType DEF op
<1>8. Number(<<>>) = 0
  BY <1>4 DEF Number, op, start
<1>9. Append(x, c) \in Seq(Numerals)
  BY <1>1
<1> QED
  BY <1>1, <1>5, <1>6, <1>7, <1>8, <1>9 DEF c

LEMMA NumberZeros ==
  ASSUME NEW k \in Nat
  PROVE  Number(Zeros(k)) = 0
<1> DEFINE S == {n \in Nat : Number(Zeros(n)) = 0}
<1>1. 0 \in S
  <2>1. Zeros(0) = <<>> /\ <<>> \in Seq(Numerals) /\ 1 \in 1 .. 10
    BY ZerosMore
  <2>2. Number(<<>>) = 0
    BY <2>1, NumberAppend
  <2> QED
    BY <2>1, <2>2
<1>2. ASSUME NEW n \in Nat, n \in S PROVE n + 1 \in S
  <2>1. Zeros(n) \in Seq(Numerals) /\ Zeros(n + 1) = Append(Zeros(n), Digits[1])
    BY ZerosMore DEF Digits
  <2>2. Number(Append(Zeros(n), Digits[1])) = 10 * Number(Zeros(n)) + (1 - 1)
    <3>1. 1 \in 1 .. 10
      OBVIOUS
    <3> QED
      BY <2>1, <3>1, NumberAppend
  <2>3. Number(Zeros(n)) = 0
    BY <1>2
  <2>4. Number(Append(Zeros(n), Digits[1])) = 0
    BY <2>2, <2>3
  <2>5. Number(Zeros(n + 1)) = 0
    BY <2>1, <2>4, Zenon
  <2> QED
    BY <2>5
<1> HIDE DEF S
<1>3. Nat \subseteq S
  BY <1>1, <1>2, Induction
<1> QED
  BY <1>3 DEF S

Numeral(k, n) == Zeros(k) \o Decimal(n)

(* A numeral of one digit and of two are worth what they say. *)
LEMMA DecimalShort ==
  ASSUME NEW k \in Nat, NEW n \in 0 .. 9
  PROVE  /\ Decimal(n) = <<Digits[n + 1]>>
         /\ Numeral(k, n) = Append(Zeros(k), Digits[n + 1])
         /\ Numeral(k, n) \in Seq(Numerals) /\ Number(Numeral(k, n)) = n
<1>1. Decimal(n) = <<Digits[n + 1]>>
  BY DEF Decimal
<1>2. n + 1 \in 1 .. 10 /\ Digits[n + 1] \in Numerals
  BY DigitsAre DEF Numerals
<1>3. Zeros(k) \in Seq(Numerals)
  BY ZerosMore
<1>4. Append(Zeros(k), Digits[n + 1]) = Zeros(k) \o <<Digits[n + 1]>>
  BY <1>2, <1>3, AppendConcat
<1>5. /\ Append(Zeros(k), Digits[n + 1]) \in Seq(Numerals)
      /\ Number(Append(Zeros(k), Digits[n + 1])) = 10 * Number(Zeros(k)) + ((n + 1) - 1)
  BY <1>2, <1>3, NumberAppend
<1>6. Number(Zeros(k)) = 0
  BY NumberZeros
<1> QED
  BY <1>1, <1>4, <1>5, <1>6 DEF Numeral

LEMMA DecimalLong ==
  ASSUME NEW k \in Nat, NEW n \in 1 .. 9, NEW d \in 0 .. 9
  PROVE  /\ Decimal(10 * n + d) = <<Digits[n + 1], Digits[d + 1]>>
         /\ Numeral(k, 10 * n + d) = Append(Numeral(k, n), Digits[d + 1])
         /\ Numeral(k, 10 * n + d) \in Seq(Numerals)
         /\ Number(Numeral(k, 10 * n + d)) = 10 * n + d
<1> DEFINE v == 10 * n + d
           x == Digits[n + 1]
           y == Digits[d + 1]
<1>1. v \div 10 = n /\ v % 10 = d /\ ~(v < 10)
  OBVIOUS
<1>2. Decimal(v) = <<x, y>>
  BY <1>1 DEF Decimal
<1>3. n \in 0 .. 9 /\ d + 1 \in 1 .. 10 /\ n + 1 \in 1 .. 10 /\ x \in Numerals /\ y \in Numerals
  BY DigitsAre DEF Numerals
<1>4. Zeros(k) \in Seq(Numerals)
  BY ZerosMore
<1> HIDE DEF v
<1>5. /\ Numeral(k, n) = Append(Zeros(k), x) /\ Numeral(k, n) \in Seq(Numerals)
      /\ Number(Numeral(k, n)) = n
  BY <1>3, DecimalShort
<1> HIDE DEF x, y
<1>6. Zeros(k) \o <<x, y>> = Append(Append(Zeros(k), x), y)
  BY <1>3, <1>4
<1>7. Numeral(k, v) = Append(Numeral(k, n), y)
  BY <1>2, <1>5, <1>6 DEF Numeral
<1>8. /\ Append(Numeral(k, n), y) \in Seq(Numerals)
      /\ Number(Append(Numeral(k, n), y)) = 10 * Number(Numeral(k, n)) + ((d + 1) - 1)
  BY <1>3, <1>5, NumberAppend DEF y
<1>9. Number(Numeral(k, v)) = v
  <2>1. Number(Append(Numeral(k, n), y)) = 10 * n + d
    BY <1>5, <1>8
  <2> QED
    BY <1>7, <2>1 DEF v
<1> QED
  BY <1>2, <1>7, <1>8, <1>9 DEF v, x, y

(* What the digits of a prefix length are: zeros, then its decimal form. *)
LEMMA DigitsOfNumber ==
  ASSUME NEW x \in Seq(Numerals), x # <<>>, Number(x) <= 32
  PROVE  \E k \in Nat : x = Numeral(k, Number(x))
<1> DEFINE S == {y \in Seq(Numerals) :
                   /\ Number(y) \in Nat
                   /\ \/ y = <<>> \/ Number(y) > 32
                      \/ \E k \in Nat : y = Numeral(k, Number(y))}
<1>1. <<>> \in S
  <2>1. <<>> \in Seq(Numerals) /\ 1 \in 1 .. 10
    OBVIOUS
  <2>2. Number(<<>>) = 0
    BY <2>1, NumberAppend
  <2> QED
    BY <2>1, <2>2
<1>2. ASSUME NEW y \in Seq(Numerals), NEW c \in Numerals, y \in S PROVE Append(y, c) \in S
  <2> DEFINE v == Number(y)
             z == Append(y, c)
  <2>1. PICK i \in 1 .. 10 : c = Digits[i]
    BY DigitIs DEF Numerals
  <2>2. v \in Nat /\ z \in Seq(Numerals) /\ Number(z) = 10 * v + (i - 1)
    BY <2>1, NumberAppend
  <2> DEFINE w == Number(z)
             d == i - 1
  <2>3. d \in 0 .. 9 /\ i = d + 1
    BY <2>1
  <2> HIDE DEF v, z, w
  <2>4. w = 10 * v + d /\ w \in Nat
    BY <2>2, <2>3 DEF w
  <2> HIDE DEF d
  <2>5. CASE w > 32
    BY <2>2, <2>4, <2>5 DEF w, z
  <2>6. CASE ~(w > 32) /\ y = <<>>
    <3>1. v = 0
      BY <2>1, <2>6, NumberAppend DEF v
    <3>2. z = Append(Zeros(0), Digits[d + 1])
      BY <2>1, <2>3, <2>6, ZerosMore DEF z
    <3>3. z = Numeral(0, d)
      BY <2>3, <3>2, DecimalShort
    <3>4. w = d /\ 0 \in Nat
      BY <2>3, <2>4, <3>1
    <3> QED
      BY <2>2, <2>4, <3>3, <3>4 DEF w, z
  <2>7. CASE ~(w > 32) /\ y # <<>>
    <3>1. v \in 0 .. 3
      BY <2>2, <2>3, <2>4, <2>7
    <3>2. PICK k \in Nat : y = Numeral(k, v)
      <4>1. ~(v > 32)
        BY <3>1
      <4> QED
        BY <1>2, <2>7, <4>1 DEF v
    <3>3. CASE v = 0
      <4>1. y = Append(Zeros(k), "0")
        <5>1. Numeral(k, 0) = Append(Zeros(k), Digits[0 + 1])
          <6>1. k \in Nat /\ 0 \in 0 .. 9
            BY <3>2
          <6> QED
            BY <6>1, DecimalShort
        <5>2. Digits[0 + 1] = "0"
          BY DEF Digits
        <5> QED
          BY <3>2, <3>3, <5>1, <5>2
      <4>2. k + 1 \in Nat /\ y = Zeros(k + 1)
        BY <4>1, ZerosMore
      <4>3. z = Numeral(k + 1, d) /\ w = d
        <5>1. Numeral(k + 1, d) = Append(Zeros(k + 1), Digits[d + 1])
          BY <2>3, <4>2, DecimalShort
        <5> QED
          BY <2>1, <2>3, <2>4, <3>3, <4>2, <5>1 DEF z
      <4> QED
        BY <2>2, <2>4, <4>2, <4>3 DEF w, z
    <3>4. CASE v # 0
      <4>1. v \in 1 .. 9
        BY <3>1, <3>4
      <4>2. z = Numeral(k, w)
        BY <2>1, <2>3, <2>4, <3>2, <4>1, DecimalLong DEF z
      <4> QED
        BY <2>2, <2>4, <4>2 DEF w, z
    <3> QED
      BY <3>3, <3>4
  <2> QED
    BY <2>5, <2>6, <2>7 DEF z
<1>3. Seq(Numerals) \subseteq S
  <2> HIDE DEF S
  <2> QED
    BY <1>1, <1>2, TextInduction
<1>4. x \in S
  BY <1>3
<1> QED
  BY <1>4

------------------------------------------------------------------------------
LEMMA MarksDiffer ==
  /\ Space \notin Numerals /\ Space # "+" /\ Space # "-"
  /\ "+" \notin Numerals /\ "-" \notin Numerals /\ "+" # "-"
<1>1. /\ Space # "0" /\ Space # "1" /\ Space # "2" /\ Space # "3" /\ Space # "4"
      /\ Space # "5" /\ Space # "6" /\ Space # "7" /\ Space # "8" /\ Space # "9"
      /\ Space # "+" /\ Space # "-"
  BY Zenon DEF Space
<1> QED
  BY <1>1, DigitsAre DEF Numerals

(* strtol in terms of Number. *)
Signed(text) == After(text, {Space})
Body(text)   == IF Signed(text) # <<>> /\ Head(Signed(text)) \in {"+", "-"}
                THEN Tail(Signed(text)) ELSE Signed(text)
Minus(text)  == Signed(text) # <<>> /\ Head(Signed(text)) = "-"
Taken(text)   == Leading(Body(text), Numerals)

LEMMA StrtolIs ==
  ASSUME NEW text, Taken(text) \in Seq(Numerals)
  PROVE  Strtol(text) =
           IF Taken(text) = <<>> THEN [value |-> 0, rest |-> text]
           ELSE [value |-> IF Minus(text) THEN 0 - Number(Taken(text)) ELSE Number(Taken(text)),
                 rest  |-> After(Body(text), Numerals)]
<1> DEFINE digits == Taken(text)
           Value == LET Add(k, d) == 10 * k + SelectInSeq(Digits, LAMBDA e : e = d) - 1
                    IN Along(Add, 0, digits)
<1>1. Value = Number(digits)
  BY NumberDrive
<1>2. Strtol(text) =
        IF digits = <<>> THEN [value |-> 0, rest |-> text]
        ELSE [value |-> IF Minus(text) THEN 0 - Value ELSE Value,
              rest  |-> After(Body(text), Numerals)]
  BY DEF Strtol, Taken, Minus, Body, Signed, Numerals, Along
<1> HIDE DEF Value
<1> QED
  BY <1>1, <1>2

LEMMA AllOfKind ==
  ASSUME NEW C, NEW K, NEW a \in Seq(C), \A i \in 1 .. Len(a) : a[i] \in K
  PROVE  a \in Seq(K)
OBVIOUS

LEMMA Wider ==
  ASSUME NEW C, NEW K, K \subseteq C, NEW a \in Seq(K)
  PROVE  a \in Seq(C)
OBVIOUS

(* The characters a number is written with. *)
LEMMA CharsHave ==
  /\ Numerals \subseteq Chars /\ Space \in Chars /\ "+" \in Chars /\ "-" \in Chars /\ "/" \in Chars
  /\ Address \subseteq Chars /\ "/" \notin Address
BY ParamsAssumption DEF Numerals, Marks

Blanks(k) == [i \in 1 .. k |-> Space]

LEMMA BlanksAre ==
  ASSUME NEW k \in Nat
  PROVE  /\ Blanks(k) \in Seq(Chars) /\ Len(Blanks(k)) = k
         /\ \A i \in 1 .. Len(Blanks(k)) : Blanks(k)[i] \in {Space}
  BY CharsHave DEF Blanks

LEMMA AllBlank ==
  ASSUME NEW a \in Seq(Chars), \A i \in 1 .. Len(a) : a[i] \in {Space}
  PROVE  Len(a) \in Nat /\ a = Blanks(Len(a))
  BY DEF Blanks

LEMMA FourParts ==
  ASSUME NEW C, NEW b \in Seq(C), NEW s \in Seq(C), NEW z \in Seq(C), NEW d \in Seq(C)
  PROVE  /\ Len(b) \in 0 .. Len(b \o (s \o (z \o d)))
         /\ Len(z) \in 0 .. Len(b \o (s \o (z \o d)))
<1>1. /\ z \o d \in Seq(C) /\ s \o (z \o d) \in Seq(C)
      /\ Len(z \o d) = Len(z) + Len(d)
      /\ Len(s \o (z \o d)) = Len(s) + Len(z \o d)
      /\ Len(b \o (s \o (z \o d))) = Len(b) + Len(s \o (z \o d))
      /\ Len(b) \in Nat /\ Len(s) \in Nat /\ Len(z) \in Nat /\ Len(d) \in Nat
  OBVIOUS
<1> QED
  BY <1>1

LEMMA AtMost ==
  ASSUME NEW m \in Nat, NEW v \in 0 .. m, NEW n, v = n
  PROVE  n <= m
OBVIOUS

(* A number read with a minus sign is no prefix length but zero. *)
LEMMA NotBelow ==
  ASSUME NEW m \in Nat, NEW v \in 0 .. m, NEW n \in Nat, v = 0 - n
  PROVE  n = 0
OBVIOUS

(* The text is a number to strtol, and nothing else. *)
ReadsTo(text, v) == text # <<>> /\ Strtol(text).rest = <<>> /\ Strtol(text).value = v

AnySign   == {<<>>, <<"+">>, <<"-">>}
MinusSign == <<"-">>

(* What strtol makes of a text it reads to its end ... *)
LEMMA StrtolTo ==
  ASSUME NEW text \in Seq(Chars), NEW v \in 0 .. 32, ReadsTo(text, v)
  PROVE  Spells(text, v)
<1> DEFINE body   == Body(text)
           digits == Taken(text)
           signed == Signed(text)
<1>1. PICK a \in Seq(Chars) : /\ signed \in Seq(Chars) /\ text = a \o signed
                              /\ \A i \in 1 .. Len(a) : a[i] \in {Space}
  <2> DEFINE kind == {Space}
  <2> HIDE DEF kind
  <2>1. \E a, b \in Seq(Chars) :
          /\ text = a \o b /\ Leading(text, kind) = a /\ After(text, kind) = b
          /\ \A i \in 1 .. Len(a) : a[i] \in kind
          /\ b # <<>> => b[1] \notin kind
    BY AfterSplit
  <2> QED
    BY <2>1 DEF Signed, kind
<1>2. Len(a) \in Nat /\ a = Blanks(Len(a))
  BY <1>1, AllBlank
<1>3. PICK sign \in AnySign :
        /\ body \in Seq(Chars) /\ signed = sign \o body
        /\ Minus(text) <=> sign = MinusSign
  <2>1. CASE signed = <<>>
    <3>1. body = signed /\ ~Minus(text)
      BY <2>1 DEF Body, Minus
    <3>2. signed = <<>> \o body
      BY <1>1, <3>1, ConcatEmpty
    <3> HIDE DEF body, signed
    <3> QED
      BY <1>1, <3>1, <3>2 DEF AnySign, MinusSign
  <2>2. CASE signed # <<>> /\ Head(signed) \notin {"+", "-"}
    <3>1. body = signed /\ ~Minus(text)
      BY <2>2, SMTT(30) DEF Body, Minus
    <3>2. signed = <<>> \o body
      BY <1>1, <3>1, ConcatEmpty
    <3> HIDE DEF body, signed
    <3> QED
      BY <1>1, <3>1, <3>2 DEF AnySign, MinusSign
  <2>3. CASE signed # <<>> /\ Head(signed) \in {"+", "-"}
    <3>1. body = Tail(signed) /\ (Minus(text) <=> Head(signed) = "-")
      BY <2>3 DEF Body, Minus
    <3> HIDE DEF body, signed
    <3>2. body \in Seq(Chars) /\ signed = <<Head(signed)>> \o body
      BY <1>1, <2>3, <3>1, HeadAndTail
    <3>3. <<Head(signed)>> = <<"-">> <=> Head(signed) = "-"
      OBVIOUS
    <3>4. <<Head(signed)>> \in {<<>>, <<"+">>, <<"-">>}
      BY <2>3
    <3> QED
      BY <3>1, <3>2, <3>3, <3>4 DEF AnySign, MinusSign
  <2> QED
    BY <2>1, <2>2, <2>3
<1>4. PICK rest \in Seq(Chars) :
        /\ digits \in Seq(Chars) /\ body = digits \o rest /\ After(body, Numerals) = rest
        /\ \A i \in 1 .. Len(digits) : digits[i] \in Numerals
  BY <1>3, AfterSplit DEF Taken
<1>5. digits \in Seq(Numerals)
  <2> HIDE DEF digits
  <2> QED
    BY <1>4, AllOfKind
<1>6. digits # <<>>
  <2> SUFFICES ASSUME digits = <<>> PROVE FALSE
    OBVIOUS
  <2>1. Strtol(text) = [value |-> 0, rest |-> text]
    BY <1>5, StrtolIs
  <2> QED
    BY <2>1 DEF ReadsTo
<1>7. Strtol(text) = [value |-> IF Minus(text) THEN 0 - Number(digits) ELSE Number(digits),
                      rest  |-> After(body, Numerals)]
  BY <1>5, <1>6, StrtolIs
<1>8. rest = <<>> /\ v = IF Minus(text) THEN 0 - Number(digits) ELSE Number(digits)
  BY <1>4, <1>7 DEF ReadsTo
<1>9. Number(digits) \in Nat
  <2>1. 1 \in 1 .. 10
    OBVIOUS
  <2> HIDE DEF digits
  <2> QED
    BY <1>5, <2>1, NumberAppend
<1>10. v = Number(digits) /\ (sign = MinusSign => v = 0)
  <2>1. CASE Minus(text)
    <3>1. Number(digits) = 0
      <4>1. v = 0 - Number(digits)
        BY <1>8, <2>1
      <4>2. v \in 0 .. 32
        OBVIOUS
      <4> HIDE DEF digits
      <4> QED
        BY <1>9, <4>1, <4>2, NotBelow
    <3> QED
      BY <1>8, <2>1, <3>1
  <2>2. CASE ~Minus(text)
    BY <1>3, <1>8, <2>2
  <2> QED
    BY <2>1, <2>2
<1>11. PICK k \in Nat : digits = Numeral(k, v)
  <2> HIDE DEF digits
  <2>1. v \in 0 .. 32
    OBVIOUS
  <2>2. Number(digits) <= 32
    BY <1>10, <2>1, AtMost
  <2> QED
    BY <1>5, <1>6, <1>10, <2>2, DigitsOfNumber
<1>12. sign \in Signs(v)
  BY <1>3, <1>10 DEF Signs, AnySign, MinusSign
<1> HIDE DEF digits, body, signed
<1>13. body = digits
  BY <1>4, <1>8, ConcatEmpty
<1> DEFINE m == Len(a)
<1>14. /\ sign \in Seq(Chars) /\ Zeros(k) \in Seq(Chars) /\ Decimal(v) \in Seq(Chars)
       /\ Blanks(m) \in Seq(Chars)
  <2>1. sign \in Seq(Chars)
    <3>1. <<>> \in Seq(Chars) /\ <<"+">> \in Seq(Chars) /\ <<"-">> \in Seq(Chars)
      BY CharsHave
    <3> QED
      BY <1>3, <3>1 DEF AnySign
  <2>2. Zeros(k) \in Seq(Numerals)
    BY ZerosMore
  <2>3. Zeros(k) \in Seq(Chars)
    BY <2>2, CharsHave, Wider
  <2>4. Decimal(v) \in Seq(Chars)
    <3>1. v \in 0 .. 32
      OBVIOUS
    <3>2. v \div 10 + 1 \in 1 .. 10 /\ (v % 10) + 1 \in 1 .. 10 /\ (v < 10 => v + 1 \in 1 .. 10)
      BY <3>1
    <3>3. \A i \in 1 .. 10 : Digits[i] \in Chars
      BY DigitsAre, CharsHave DEF Numerals
    <3>4. CASE v < 10
      BY <3>2, <3>3, <3>4 DEF Decimal
    <3>5. CASE ~(v < 10)
      <4> DEFINE x == Digits[v \div 10 + 1]
                 y == Digits[(v % 10) + 1]
      <4>1. x \in Chars /\ y \in Chars
        BY <3>2, <3>3
      <4>2. Decimal(v) = <<x, y>>
        BY <3>5 DEF Decimal
      <4> HIDE DEF x, y
      <4> QED
        BY <4>1, <4>2
    <3> QED
      BY <3>4, <3>5
  <2> QED
    BY <1>1, <1>2, <2>1, <2>3, <2>4
<1>15. /\ text = Blanks(m) \o (sign \o (Zeros(k) \o Decimal(v)))
       /\ Len(Blanks(m)) \in 0 .. Len(text) /\ Len(Zeros(k)) \in 0 .. Len(text)
  <2> DEFINE z == Zeros(k)
             d == Decimal(v)
             b == Blanks(m)
  <2>1. text = b \o (sign \o (z \o d))
    BY <1>1, <1>2, <1>3, <1>11, <1>13 DEF Numeral
  <2> HIDE DEF z, d, b
  <2>2. b \in Seq(Chars) /\ sign \in Seq(Chars) /\ z \in Seq(Chars) /\ d \in Seq(Chars)
    BY <1>14 DEF z, d, b
  <2>3. Len(b) \in 0 .. Len(text) /\ Len(z) \in 0 .. Len(text)
    BY <2>1, <2>2, FourParts
  <2> QED
    BY <2>1, <2>3 DEF z, d, b
<1>16. m \in 0 .. Len(text) /\ k \in 0 .. Len(text)
  <2>1. Len(Blanks(m)) = m /\ Len(Zeros(k)) = k
    BY <1>2, BlanksAre, ZerosMore
  <2> QED
    BY <1>15, <2>1
<1> HIDE DEF m
<1>17. Spells(text, v)
  BY <1>12, <1>15, <1>16 DEF Spells, Blanks, Zeros
<1> QED
  BY <1>17

LEMMA SignOf ==
  ASSUME NEW v, NEW sign \in Signs(v)
  PROVE  sign \in AnySign /\ (sign = MinusSign => v = 0)
<1>1. MinusSign # <<>> /\ MinusSign # <<"+">>
  BY DEF MinusSign
<1>2. sign = <<>> \/ sign = <<"+">> \/ (sign = MinusSign /\ v = 0)
  BY Zenon DEF Signs, MinusSign
<1> QED
  BY <1>1, <1>2, Zenon DEF AnySign, MinusSign

LEMMA MinusNought ==
  ASSUME NEW v \in 0 .. 32, v = 0
  PROVE  0 - v = v
OBVIOUS

(* So is every numeral of a prefix length. *)
LEMMA NumeralIs ==
  ASSUME NEW k \in Nat, NEW v \in 0 .. 32
  PROVE  Numeral(k, v) \in Seq(Numerals) /\ Number(Numeral(k, v)) = v
<1>1. CASE v < 10
  <2>1. v \in 0 .. 9
    BY <1>1
  <2> QED
    BY <2>1, DecimalShort
<1>2. CASE ~(v < 10)
  <2> DEFINE n == v \div 10
             d == v % 10
  <2>1. n \in 1 .. 9 /\ d \in 0 .. 9 /\ 10 * n + d = v
    BY <1>2
  <2> HIDE DEF n, d
  <2>2. /\ Numeral(k, 10 * n + d) \in Seq(Numerals)
        /\ Number(Numeral(k, 10 * n + d)) = 10 * n + d
    BY <2>1, DecimalLong
  <2> QED
    BY <2>1, <2>2
<1> QED
  BY <1>1, <1>2

(* ... and the other way round. *)
LEMMA StrtolOf ==
  ASSUME NEW text \in Seq(Chars), NEW v \in 0 .. 32, Spells(text, v)
  PROVE  ReadsTo(text, v)
<1>1. PICK m \in Nat, k \in Nat, sign \in Signs(v) :
        text = Blanks(m) \o (sign \o (Zeros(k) \o Decimal(v)))
  <2>1. \A n \in 0 .. Len(text) : n \in Nat
    OBVIOUS
  <2> QED
    BY <2>1 DEF Spells, Blanks, Zeros
<1> DEFINE digits == Numeral(k, v)
           rest   == sign \o digits
           b      == Blanks(m)
<1>2. /\ sign \in AnySign /\ (sign = MinusSign => v = 0)
      /\ text = b \o rest
  <2>1. sign \in AnySign /\ (sign = MinusSign => v = 0)
    BY SignOf
  <2> QED
    BY <1>1, <2>1 DEF Numeral
<1>3. /\ digits \in Seq(Numerals) /\ Number(digits) = v
  BY NumeralIs
<1>4. digits # <<>>
  <2>1. Decimal(v) \in Seq(Numerals) /\ Decimal(v) # <<>>
    <3>1. v \div 10 + 1 \in 1 .. 10 /\ (v % 10) + 1 \in 1 .. 10 /\ (v < 10 => v + 1 \in 1 .. 10)
      OBVIOUS
    <3>2. \A i \in 1 .. 10 : Digits[i] \in Numerals
      BY DigitsAre DEF Numerals
    <3>3. CASE v < 10
      BY <3>1, <3>2, <3>3 DEF Decimal
    <3>4. CASE ~(v < 10)
      <4> DEFINE x == Digits[v \div 10 + 1]
                 y == Digits[(v % 10) + 1]
      <4>1. x \in Numerals /\ y \in Numerals
        BY <3>1, <3>2
      <4>2. Decimal(v) = <<x, y>>
        BY <3>4 DEF Decimal
      <4> HIDE DEF x, y
      <4> QED
        BY <4>1, <4>2
    <3> QED
      BY <3>3, <3>4
  <2> DEFINE d == Decimal(v)
             z == Zeros(k)
  <2>2. z \in Seq(Numerals)
    BY ZerosMore
  <2> HIDE DEF d, z
  <2>3. z \o d # <<>>
    BY <2>1, <2>2 DEF d
  <2> QED
    BY <2>3 DEF Numeral, z, d
<1> HIDE DEF digits
<1>5. /\ digits \in Seq(Chars) /\ Head(digits) \in Numerals
      /\ \A i \in 1 .. Len(digits) : digits[i] \in Numerals
  BY <1>3, <1>4, CharsHave
<1>6. b \in Seq(Chars) /\ \A i \in 1 .. Len(b) : b[i] \in {Space}
  BY BlanksAre
<1>7. /\ rest \in Seq(Chars) /\ rest # <<>>
      /\ \/ sign = <<>> /\ rest = digits
         \/ sign = <<"+">> /\ Head(rest) = "+" /\ Tail(rest) = digits
         \/ sign = MinusSign /\ Head(rest) = "-" /\ Tail(rest) = digits
  <2>1. CASE sign = <<>>
    BY <1>4, <1>5, <2>1, ConcatEmpty
  <2>2. CASE sign = <<"+">>
    <3>1. "+" \in Chars
      BY CharsHave
    <3> QED
      BY <1>5, <2>2, <3>1, ConcatFirst
  <2>3. CASE sign = MinusSign
    <3>1. "-" \in Chars
      BY CharsHave
    <3> QED
      BY <1>5, <2>3, <3>1, ConcatFirst DEF MinusSign
  <2> QED
    BY <1>2, <2>1, <2>2, <2>3 DEF AnySign, MinusSign
<1>8. Head(rest) \notin {Space}
  BY <1>5, <1>7, MarksDiffer
<1> HIDE DEF b, rest
<1>9. Signed(text) = rest
  <2> DEFINE kind == {Space}
  <2>1. \A i \in 1 .. Len(b) : b[i] \in kind
    BY <1>6
  <2>2. rest # <<>> => rest[1] \notin kind
    BY <1>7, <1>8
  <2> HIDE DEF kind
  <2>3. After(b \o rest, kind) = rest
    BY <1>6, <1>7, <2>1, <2>2, AfterOf
  <2> QED
    BY <1>2, <2>3 DEF Signed, kind
<1>10. Body(text) = digits /\ (Minus(text) => v = 0)
  <2>1. CASE rest = digits
    BY <1>5, <1>7, <1>9, <2>1, MarksDiffer DEF Body, Minus
  <2>2. CASE sign = <<"+">> /\ Head(rest) = "+" /\ Tail(rest) = digits
    BY <1>7, <1>9, <2>2, MarksDiffer DEF Body, Minus
  <2>3. CASE sign = MinusSign /\ Head(rest) = "-" /\ Tail(rest) = digits
    BY <1>2, <1>7, <1>9, <2>3 DEF Body, Minus
  <2> QED
    BY <1>7, <2>1, <2>2, <2>3
<1>11. Taken(text) = digits /\ After(digits, Numerals) = <<>>
  <2>1. <<>> \in Seq(Chars) /\ digits \o <<>> = digits
    BY <1>5, ConcatEmpty
  <2>2. After(digits \o <<>>, Numerals) = <<>> /\ Leading(digits \o <<>>, Numerals) = digits
    BY <1>5, <2>1, AfterOf
  <2> QED
    BY <1>10, <2>1, <2>2 DEF Taken
<1>12. Strtol(text) = [value |-> IF Minus(text) THEN 0 - v ELSE v, rest |-> <<>>]
  BY <1>3, <1>4, <1>10, <1>11, StrtolIs
<1>13. Strtol(text).rest = <<>>
  BY <1>12
<1>14. Strtol(text).value = v
  <2>1. CASE Minus(text)
    <3>1. 0 - v = v
      BY <1>10, <2>1, MinusNought
    <3> QED
      BY <1>12, <2>1, <3>1
  <2>2. CASE ~Minus(text)
    BY <1>12, <2>2
  <2> QED
    BY <2>1, <2>2
<1>15. text # <<>>
  BY <1>2, <1>6, <1>7
<1> QED
  BY <1>13, <1>14, <1>15 DEF ReadsTo

------------------------------------------------------------------------------
(* An entry that is an address, or none. *)
LEMMA InetPtonIs ==
  ASSUME NEW token \in Seq(Chars)
  PROVE  /\ InetPton(token) \in Entered(Address)
         /\ InetPton(token) # None <=> token \in {<<a>> : a \in Address}
         /\ InetPton(token) # None => token = <<InetPton(token)>>
<1>0. None \notin Address
  BY ParamsAssumption
<1>1. CASE Len(token) = 1 /\ Head(token) \in Address
  <2>1. token = <<Head(token)>>
    BY <1>1
  <2> QED
    BY <1>0, <1>1, <2>1 DEF InetPton, Entered
<1>2. CASE ~(Len(token) = 1 /\ Head(token) \in Address)
  <2>1. InetPton(token) = None
    BY <1>2 DEF InetPton
  <2>2. token \notin {<<a>> : a \in Address}
    BY <1>2
  <2> QED
    BY <2>1, <2>2 DEF Entered
<1> QED
  BY <1>1, <1>2

(* The first slash of an entry that begins with an address. *)
LEMMA SlashIs ==
  ASSUME NEW token \in Seq(Chars), NEW slash,
         slash = SelectInSeq(token, LAMBDA c : c = "/")
  PROVE  /\ slash \in 0 .. Len(token)
         /\ InetPton(SubSeq(token, 1, slash - 1)) # None =>
              /\ slash = 2 /\ token[2] = "/" /\ token[1] \in Address /\ Len(token) >= 2
              /\ InetPton(SubSeq(token, 1, slash - 1)) = token[1]
         /\ Len(token) >= 2 /\ token[1] \in Address /\ token[2] = "/" =>
              slash = 2 /\ InetPton(SubSeq(token, 1, slash - 1)) = token[1]
<1> DEFINE I == {i \in 1 .. Len(token) : token[i] = "/"}
<1>1. slash = IF I # {} THEN Min(I) ELSE 0
  BY DEF SelectInSeq
<1>2. I \subseteq Nat /\ Len(token) \in Nat
  OBVIOUS
<1>3. I # {} => Min(I) \in I /\ \A i \in I : Min(I) <= i
  <2> HIDE DEF I
  <2> QED
    BY <1>2, Least
<1>4. slash \in 0 .. Len(token) /\ (slash # 0 => slash \in I)
  <2>1. CASE I = {}
    BY <1>1, <1>2, <2>1
  <2>2. CASE I # {}
    <3>1. slash \in I
      BY <1>1, <1>3, <2>2
    <3> QED
      BY <1>2, <3>1
  <2> QED
    BY <2>1, <2>2
<1> DEFINE head == SubSeq(token, 1, slash - 1)
<1>5. ASSUME InetPton(head) # None
      PROVE  /\ slash = 2 /\ token[2] = "/" /\ token[1] \in Address /\ Len(token) >= 2
             /\ InetPton(head) = token[1]
  <2>1. head \in Seq(Chars) /\ Len(head) = IF slash = 0 THEN 0 ELSE slash - 1
    BY <1>2, <1>4
  <2>2. Len(head) = 1 /\ Head(head) \in Address /\ InetPton(head) = Head(head)
    BY <1>5 DEF InetPton
  <2>3. slash = 2
    BY <1>2, <1>4, <2>1, <2>2
  <2>4. token[2] = "/" /\ 2 \in 1 .. Len(token)
    BY <1>4, <2>3
  <2>5. Head(head) = token[1]
    BY <1>2, <2>3, <2>4
  <2> QED
    BY <1>2, <2>2, <2>3, <2>4, <2>5
<1>6. ASSUME Len(token) >= 2, token[1] \in Address, token[2] = "/"
      PROVE  slash = 2 /\ InetPton(head) = token[1]
  <2>1. token[1] # "/"
    BY <1>6, CharsHave
  <2>2. 2 \in I /\ 1 \notin I
    BY <1>2, <1>6, <2>1
  <2>3. slash = 2
    <3>1. slash \in I /\ slash <= 2
      BY <1>1, <1>3, <2>2
    <3>2. slash \in Nat /\ slash # 0 /\ slash # 1
      BY <2>2, <3>1
    <3> HIDE DEF I
    <3> QED
      BY <3>1, <3>2
  <2>4. Len(head) = 1 /\ Head(head) = token[1]
    BY <1>2, <1>6, <2>3
  <2> QED
    BY <1>6, <2>3, <2>4 DEF InetPton
<1> QED
  BY <1>4, <1>5, <1>6

LEMMA MoreThanTwo ==
  ASSUME NEW n \in Nat, n > 2, NEW k, k = (n - 3) + 1
  PROVE  k # 0
OBVIOUS

LEMMA FromThird ==
  ASSUME NEW C, NEW t \in Seq(C), Len(t) > 2
  PROVE  SubSeq(t, 3, Len(t)) \in Seq(C) /\ SubSeq(t, 3, Len(t)) # <<>>
<1> DEFINE u == SubSeq(t, 3, Len(t))
<1>1. u \in Seq(C) /\ Len(u) = (Len(t) - 3) + 1 /\ Len(t) \in Nat
  OBVIOUS
<1> HIDE DEF u
<1>2. Len(u) # 0
  BY <1>1, MoreThanTwo
<1>3. Len(<<>>) = 0
  OBVIOUS
<1> QED
  BY <1>1, <1>2, <1>3 DEF u

(* A route is read from an entry exactly when it is written there. *)
LEMMA RouteIs ==
  ASSUME NEW token \in Seq(Chars)
  PROVE  /\ Route(token) \in Entered(RouteType)
         /\ Route(token) # None => RouteWritten(token, Route(token))
         /\ \A route \in RouteType : RouteWritten(token, route) => Route(token) = route
<1> DEFINE slash == SelectInSeq(token, LAMBDA c : c = "/")
           network == InetPton(SubSeq(token, 1, slash - 1))
           rest == SubSeq(token, slash + 1, Len(token))
           Ok == /\ slash # 0 /\ network # None
                 /\ slash < Len(token) /\ Strtol(rest).rest = <<>>
                 /\ Strtol(rest).value \in 0 .. 32
           made == [network |-> network, prefix |-> Strtol(rest).value]
<1>1. Route(token) = IF Ok THEN made ELSE None
  BY DEF Route
<1>2. /\ slash \in 0 .. Len(token)
      /\ network # None =>
           /\ slash = 2 /\ token[2] = "/" /\ token[1] \in Address /\ Len(token) >= 2
           /\ network = token[1]
      /\ Len(token) >= 2 /\ token[1] \in Address /\ token[2] = "/" =>
           slash = 2 /\ network = token[1]
  BY SlashIs
<1>3. Len(token) \in Nat /\ None \notin Address
  BY ParamsAssumption
<1>4. slash = 2 /\ Len(token) > 2 =>
        /\ rest = SubSeq(token, 3, Len(token)) /\ rest \in Seq(Chars) /\ rest # <<>>
  <2> HIDE DEF slash
  <2> SUFFICES ASSUME slash = 2, Len(token) > 2
               PROVE  rest = SubSeq(token, 3, Len(token)) /\ rest \in Seq(Chars) /\ rest # <<>>
    OBVIOUS
  <2>0. token \in Seq(Chars) /\ Len(token) > 2
    OBVIOUS
  <2>1. rest = SubSeq(token, 3, Len(token))
    OBVIOUS
  <2> QED
    BY <2>0, <2>1, FromThird
<1> HIDE DEF slash, network, rest
<1>5. ASSUME Ok PROVE made \in RouteType /\ RouteWritten(token, made)
  <2>1. /\ slash = 2 /\ token[2] = "/" /\ token[1] = network /\ network \in Address
        /\ Len(token) > 2
    BY <1>2, <1>5
  <2>2. made \in RouteType /\ made.network = network /\ made.prefix = Strtol(rest).value
    BY <1>5, <2>1 DEF RouteType
  <2>3. ReadsTo(rest, made.prefix)
    BY <1>4, <1>5, <2>1, <2>2 DEF ReadsTo
  <2>4. made.prefix \in 0 .. 32
    BY <1>5, <2>2
  <2> HIDE DEF made
  <2>5. Spells(rest, made.prefix)
    BY <1>4, <2>1, <2>3, <2>4, StrtolTo
  <2> QED
    BY <1>4, <2>1, <2>2, <2>5 DEF RouteWritten
<1>6. ASSUME NEW route \in RouteType, RouteWritten(token, route) PROVE Ok /\ made = route
  <2>1. /\ Len(token) > 2 /\ token[1] = route.network /\ token[2] = "/"
        /\ Spells(SubSeq(token, 3, Len(token)), route.prefix)
        /\ route.network \in Address /\ route.prefix \in 0 .. 32
        /\ route = [network |-> route.network, prefix |-> route.prefix]
    BY <1>6 DEF RouteWritten, RouteType
  <2>2. slash = 2 /\ network = route.network
    BY <1>2, <1>3, <2>1
  <2>3. rest = SubSeq(token, 3, Len(token)) /\ rest \in Seq(Chars)
    BY <1>4, <2>1, <2>2
  <2>4. ReadsTo(rest, route.prefix)
    BY <2>1, <2>3, StrtolOf
  <2>5. Strtol(rest).rest = <<>> /\ Strtol(rest).value = route.prefix
    BY <2>4 DEF ReadsTo
  <2>6. Ok
    BY <1>3, <2>1, <2>2, <2>5
  <2>7. made = route
    BY <2>1, <2>2, <2>5
  <2> QED
    BY <2>6, <2>7
<1>7. None \notin RouteType
  BY ParamsAssumption
<1> HIDE DEF Ok, made
<1> QED
  BY <1>1, <1>5, <1>6, <1>7 DEF Entered

------------------------------------------------------------------------------
(* The entries of a text are texts. *)
LEMMA EntriesAre ==
  ASSUME NEW text \in Seq(Chars)
  PROVE  /\ Len(Words(text, {Comma})) \in Nat
         /\ DOMAIN Words(text, {Comma}) = 1 .. Len(Words(text, {Comma}))
         /\ \A k \in 1 .. Len(Words(text, {Comma})) : Words(text, {Comma})[k] \in Seq(Chars)
<1> DEFINE words == Words(text, {Comma})
           B == Seq(Chars)
<1>1. words \in Seq(Seq(Chars))
  BY WordsSegmented
<1>2. words \in Seq(B)
  BY <1>1
<1> HIDE DEF words, B
<1>3. Len(words) \in Nat /\ DOMAIN words = 1 .. Len(words)
      /\ \A k \in 1 .. Len(words) : words[k] \in B
  BY <1>2
<1> QED
  BY <1>3 DEF words, B

(* What nmo_parse_routes reads is what is written, in place. *)
LEMMA RoutesRead ==
  ASSUME NEW text \in Seq(Chars), NEW out, out = nmo_parse_routes(text)
  PROVE  /\ out \in Seq(RouteType)
         /\ \E at \in [DOMAIN out -> RoutePlaces(text)] :
              /\ InPlace(at, Len(out), RoutePlaces(text), MaxRoutes)
              /\ \A k \in DOMAIN out : RouteWritten(EntryAt(text, at[k]), out[k])
<1> DEFINE words   == Words(text, {Comma})
           n       == Len(words)
           entries == [k \in 1 .. n |-> Route(words[k])]
           C       == Entered(RouteType)
           places  == RoutePlaces(text)
<1>1. /\ n \in Nat /\ DOMAIN words = 1 .. n
      /\ \A k \in 1 .. n : words[k] \in Seq(Chars)
  BY EntriesAre
<1>2. out = Parse(entries, MaxRoutes)
  BY <1>1 DEF nmo_parse_routes
<1> HIDE DEF words, n
<1>3. ASSUME NEW k \in 1 .. n
      PROVE  /\ entries[k] = Route(words[k]) /\ entries[k] \in C
             /\ entries[k] # None => RouteWritten(words[k], entries[k])
             /\ \A route \in RouteType : RouteWritten(words[k], route) => entries[k] = route
  <2>1. entries[k] = Route(words[k]) /\ words[k] \in Seq(Chars)
    BY <1>1
  <2> HIDE DEF entries
  <2> QED
    BY <2>1, RouteIs
<1>4. entries \in Seq(C) /\ Len(entries) = n
  <2> HIDE DEF C
  <2>1. entries = [k \in 1 .. n |-> entries[k]] /\ \A k \in 1 .. n : entries[k] \in C
    BY <1>3
  <2> HIDE DEF entries
  <2> QED
    BY <1>1, <2>1, Mapped
<1> HIDE DEF entries
<1>5. None \notin RouteType /\ MaxRoutes \in Nat
  BY ParamsAssumption
<1>6. places \subseteq Starts(text)
  BY DEF RoutePlaces
<1>7. ASSUME NEW k \in 1 .. n, NEW i \in Starts(text), EntryAt(text, i) = words[k]
      PROVE  i \in places <=> entries[k] # None
  <2>1. i \in places <=> \E route \in RouteType : RouteWritten(words[k], route)
    BY <1>7 DEF RoutePlaces
  <2>2. entries[k] \in RouteType \/ entries[k] = None
    BY <1>3 DEF Entered
  <2> HIDE DEF places
  <2> QED
    BY <1>3, <1>5, <2>1, <2>2
<1> HIDE DEF places, C
<1>8. /\ out \in Seq(RouteType)
      /\ \E at \in [DOMAIN out -> places] :
           /\ InPlace(at, Len(out), places, MaxRoutes)
           /\ \A k \in DOMAIN out : \E l \in 1 .. n :
                /\ out[k] = entries[l] /\ entries[l] # None
                /\ EntryAt(text, at[k]) = words[l]
  <2>1. C = Entered(RouteType)
    BY DEF C
  <2>2. Len(entries) = Len(Words(text, {Comma}))
    BY <1>4 DEF n, words
  <2>3. \A k \in 1 .. Len(entries) : \A i \in Starts(text) :
           EntryAt(text, i) = Words(text, {Comma})[k] => (i \in places <=> entries[k] # None)
    BY <1>4, <1>7 DEF words
  <2>4. Apart(text, entries, places)
    BY <1>6, <2>2, <2>3 DEF Apart
  <2>5. out \in Seq(RouteType) /\ TakenFrom(text, out, entries, places, MaxRoutes)
    BY <1>2, <1>4, <1>5, <2>1, <2>4, InPlaceOfText
  <2> QED
    BY <1>4, <2>5 DEF words, TakenFrom
<1>9. PICK at \in [DOMAIN out -> places] :
        /\ InPlace(at, Len(out), places, MaxRoutes)
        /\ \A k \in DOMAIN out : \E l \in 1 .. n :
             /\ out[k] = entries[l] /\ entries[l] # None
             /\ EntryAt(text, at[k]) = words[l]
  BY <1>8
<1>10. \A k \in DOMAIN out : RouteWritten(EntryAt(text, at[k]), out[k])
  BY <1>3, <1>9
<1> QED
  BY <1>8, <1>9, <1>10 DEF places

(* The same of nmo_parse_dns. *)
LEMMA ServersRead ==
  ASSUME NEW text \in Seq(Chars), NEW out, out = nmo_parse_dns(text)
  PROVE  /\ out \in Seq(Address)
         /\ \E at \in [DOMAIN out -> ServerPlaces(text)] :
              /\ InPlace(at, Len(out), ServerPlaces(text), MaxServers)
              /\ \A k \in DOMAIN out : EntryAt(text, at[k]) = <<out[k]>>
<1> DEFINE words   == Words(text, {Comma})
           n       == Len(words)
           entries == [k \in 1 .. n |-> InetPton(words[k])]
           C       == Entered(Address)
           places  == ServerPlaces(text)
<1>1. /\ n \in Nat /\ DOMAIN words = 1 .. n
      /\ \A k \in 1 .. n : words[k] \in Seq(Chars)
  BY EntriesAre
<1>2. out = Parse(entries, MaxServers)
  BY <1>1 DEF nmo_parse_dns
<1> HIDE DEF words, n
<1>3. ASSUME NEW k \in 1 .. n
      PROVE  /\ entries[k] \in C
             /\ entries[k] # None <=> words[k] \in {<<a>> : a \in Address}
             /\ entries[k] # None => words[k] = <<entries[k]>>
  <2>1. entries[k] = InetPton(words[k]) /\ words[k] \in Seq(Chars)
    BY <1>1
  <2> HIDE DEF entries
  <2> QED
    BY <2>1, InetPtonIs
<1>4. entries \in Seq(C) /\ Len(entries) = n
  <2> HIDE DEF C
  <2>1. entries = [k \in 1 .. n |-> entries[k]] /\ \A k \in 1 .. n : entries[k] \in C
    BY <1>3
  <2> HIDE DEF entries
  <2> QED
    BY <1>1, <2>1, Mapped
<1> HIDE DEF entries
<1>5. None \notin Address /\ MaxServers \in Nat
  BY ParamsAssumption
<1>6. places \subseteq Starts(text)
  BY DEF ServerPlaces
<1>7. ASSUME NEW k \in 1 .. n, NEW i \in Starts(text), EntryAt(text, i) = words[k]
      PROVE  i \in places <=> entries[k] # None
  <2>1. i \in places <=> words[k] \in {<<a>> : a \in Address}
    BY <1>7 DEF ServerPlaces
  <2> HIDE DEF places
  <2> QED
    BY <1>3, <2>1
<1> HIDE DEF places, C
<1>8. /\ out \in Seq(Address)
      /\ \E at \in [DOMAIN out -> places] :
           /\ InPlace(at, Len(out), places, MaxServers)
           /\ \A k \in DOMAIN out : \E l \in 1 .. n :
                /\ out[k] = entries[l] /\ entries[l] # None
                /\ EntryAt(text, at[k]) = words[l]
  <2>1. C = Entered(Address)
    BY DEF C
  <2>2. Len(entries) = Len(Words(text, {Comma}))
    BY <1>4 DEF n, words
  <2>3. \A k \in 1 .. Len(entries) : \A i \in Starts(text) :
           EntryAt(text, i) = Words(text, {Comma})[k] => (i \in places <=> entries[k] # None)
    BY <1>4, <1>7 DEF words
  <2>4. Apart(text, entries, places)
    BY <1>6, <2>2, <2>3 DEF Apart
  <2>5. out \in Seq(Address) /\ TakenFrom(text, out, entries, places, MaxServers)
    BY <1>2, <1>4, <1>5, <2>1, <2>4, InPlaceOfText
  <2> QED
    BY <1>4, <2>5 DEF words, TakenFrom
<1>9. PICK at \in [DOMAIN out -> places] :
        /\ InPlace(at, Len(out), places, MaxServers)
        /\ \A k \in DOMAIN out : \E l \in 1 .. n :
             /\ out[k] = entries[l] /\ entries[l] # None
             /\ EntryAt(text, at[k]) = words[l]
  BY <1>8
<1>10. \A k \in DOMAIN out : EntryAt(text, at[k]) = <<out[k]>>
  BY <1>3, <1>9
<1> QED
  BY <1>8, <1>9, <1>10 DEF places

(* Something is read if and only if there is something to read. *)
LEMMA SomeRead ==
  ASSUME NEW T, NEW out \in Seq(T), NEW places, NEW max \in Nat \ {0},
         NEW at \in [DOMAIN out -> places], InPlace(at, Len(out), places, max)
  PROVE  /\ out # <<>> <=> places # {}
         /\ Len(out) \in Nat /\ Len(out) <= max
<1> DEFINE n == Len(out)
<1>1. n \in Nat /\ DOMAIN out = 1 .. n /\ (out = <<>> <=> n = 0)
  OBVIOUS
<1> HIDE DEF n
<1>2. /\ n <= max
      /\ \A i \in places : (\E k \in 1 .. n : at[k] = i) \/ n = max
  BY DEF InPlace, n
<1>3. ASSUME n # 0 PROVE places # {}
  <2>1. 1 \in DOMAIN out
    BY <1>1, <1>3
  <2>2. at[1] \in places
    BY <2>1
  <2> QED
    BY <2>2
<1>4. ASSUME NEW i \in places PROVE n # 0
  BY <1>1, <1>2
<1> QED
  BY <1>1, <1>2, <1>3, <1>4 DEF n

(* What add_split_routes reports. *)
LEMMA RoutesShown ==
  ASSUME NEW text \in Seq(Chars), NEW split, split = add_split_routes(text)
  PROVE  /\ split.routes \in Seq(RouteType) /\ Len(split.routes) <= MaxRoutes
         /\ split.never_default \in BOOLEAN
         /\ split.never_default <=> RoutePlaces(text) # {}
         /\ \E at \in [DOMAIN split.routes -> RoutePlaces(text)] :
              /\ InPlace(at, Len(split.routes), RoutePlaces(text), MaxRoutes)
              /\ \A k \in DOMAIN split.routes :
                   RouteWritten(EntryAt(text, at[k]), split.routes[k])
<1> DEFINE out    == nmo_parse_routes(text)
           places == RoutePlaces(text)
<1>1. split.routes = out /\ split.never_default = (out # <<>>)
  BY DEF add_split_routes
<1> HIDE DEF out, places
<1>2. /\ out \in Seq(RouteType)
      /\ \E at \in [DOMAIN out -> places] :
           /\ InPlace(at, Len(out), places, MaxRoutes)
           /\ \A k \in DOMAIN out : RouteWritten(EntryAt(text, at[k]), out[k])
  BY RoutesRead DEF out, places
<1>3. PICK at \in [DOMAIN out -> places] :
        /\ InPlace(at, Len(out), places, MaxRoutes)
        /\ \A k \in DOMAIN out : RouteWritten(EntryAt(text, at[k]), out[k])
  BY <1>2
<1>4. MaxRoutes \in Nat \ {0}
  BY ParamsAssumption
<1>5. (out # <<>> <=> places # {}) /\ Len(out) <= MaxRoutes
  BY <1>2, <1>3, <1>4, SomeRead
<1> QED
  BY <1>1, <1>2, <1>5 DEF places

LEMMA Roomy ==
  ASSUME NEW max \in Nat \ {0}, NEW n \in Nat, n \in 0 .. 2 \/ n <= max
  PROVE  n <= IF max < 2 THEN 2 ELSE max
OBVIOUS

LEMMA InNat ==
  ASSUME NEW n \in 0 .. 2
  PROVE  n \in Nat
OBVIOUS

LEMMA PairIs ==
  ASSUME NEW C, NEW a \in C, NEW b \in C
  PROVE  <<a>> \o <<b>> = <<a, b>>
<1> DEFINE s == <<a>>
           t == <<b>>
           u == <<a, b>>
<1>1. /\ s \in Seq(C) /\ t \in Seq(C) /\ u \in Seq(C)
      /\ Len(s) = 1 /\ Len(t) = 1 /\ Len(u) = 2 /\ s[1] = a /\ t[1] = b /\ u[1] = a /\ u[2] = b
  OBVIOUS
<1> HIDE DEF s, t, u
<1>2. /\ Len(u) = Len(s) + Len(t) /\ \A i \in 1 .. Len(s) : u[i] = s[i]
      /\ \A i \in 1 .. Len(t) : u[Len(s) + i] = t[i]
  BY <1>1
<1>3. s \o t = u
  BY <1>1, <1>2, ConcatIs
<1> QED
  BY <1>3 DEF s, t, u

(* The servers of pppd, as many as there are. *)
LEMMA NegotiatedIs ==
  ASSUME NEW a \in Address \cup {None}, NEW b \in Address \cup {None}
  PROVE  /\ Negotiated(a) \o Negotiated(b) \in Seq(Address)
         /\ Len(Negotiated(a) \o Negotiated(b)) \in 0 .. 2
         /\ ToSet(Negotiated(a) \o Negotiated(b)) = {a, b} \ {None}
<1>1. CASE a = None /\ b = None
  BY <1>1 DEF Negotiated, ToSet
<1>2. CASE a = None /\ b # None
  <2>1. Negotiated(a) \o Negotiated(b) = <<b>> /\ b \in Address
    BY <1>2 DEF Negotiated
  <2> QED
    BY <1>2, <2>1 DEF ToSet
<1>3. CASE a # None /\ b = None
  <2>1. Negotiated(a) \o Negotiated(b) = <<a>> /\ a \in Address
    BY <1>3 DEF Negotiated
  <2> QED
    BY <1>3, <2>1 DEF ToSet
<1>4. CASE a # None /\ b # None
  <2>0. /\ a \in Address /\ b \in Address
        /\ Negotiated(a) = <<a>> /\ Negotiated(b) = <<b>> /\ <<a>> \in Seq(Address)
    BY <1>4 DEF Negotiated
  <2>1. Negotiated(a) \o Negotiated(b) = <<a, b>> /\ a \in Address /\ b \in Address
    <3>1. <<a>> \o <<b>> = <<a, b>>
      BY <2>0, PairIs
    <3> QED
      BY <2>0, <3>1
  <2> QED
    BY <1>4, <2>1 DEF ToSet
<1> QED
  BY <1>1, <1>2, <1>3, <1>4

(* What add_dns reports. *)
LEMMA ServersShown ==
  ASSUME NEW text \in Seq(Chars), NEW ipcp \in (Address \cup {None}) \X (Address \cup {None}),
         NEW dns, dns = add_dns(text, ipcp)
  PROVE  /\ dns \in Seq(Address)
         /\ Len(dns) <= IF MaxServers < 2 THEN 2 ELSE MaxServers
         /\ IF ServerPlaces(text) = {} THEN ToSet(dns) = ToSet(ipcp) \ {None}
            ELSE \E at \in [DOMAIN dns -> ServerPlaces(text)] :
                   /\ InPlace(at, Len(dns), ServerPlaces(text), MaxServers)
                   /\ \A k \in DOMAIN dns : EntryAt(text, at[k]) = <<dns[k]>>
<1> DEFINE out    == nmo_parse_dns(text)
           places == ServerPlaces(text)
           other  == Negotiated(ipcp[1]) \o Negotiated(ipcp[2])
<1>1. dns = IF out # <<>> THEN out ELSE other
  BY DEF add_dns
<1>2. /\ other \in Seq(Address) /\ Len(other) \in 0 .. 2
      /\ ToSet(other) = ToSet(ipcp) \ {None}
  <2>1. /\ ipcp[1] \in Address \cup {None} /\ ipcp[2] \in Address \cup {None}
        /\ ipcp = <<ipcp[1], ipcp[2]>>
    OBVIOUS
  <2>2. ToSet(ipcp) = {ipcp[1], ipcp[2]}
    BY <2>1 DEF ToSet
  <2> QED
    BY <2>1, <2>2, NegotiatedIs
<1> HIDE DEF out, places, other
<1>3. /\ out \in Seq(Address)
      /\ \E at \in [DOMAIN out -> places] :
           /\ InPlace(at, Len(out), places, MaxServers)
           /\ \A k \in DOMAIN out : EntryAt(text, at[k]) = <<out[k]>>
  BY ServersRead DEF out, places
<1>4. PICK at \in [DOMAIN out -> places] :
        /\ InPlace(at, Len(out), places, MaxServers)
        /\ \A k \in DOMAIN out : EntryAt(text, at[k]) = <<out[k]>>
  BY <1>3
<1>5. MaxServers \in Nat \ {0}
  BY ParamsAssumption
<1>6. (out # <<>> <=> places # {}) /\ Len(out) \in Nat /\ Len(out) <= MaxServers
  BY <1>3, <1>4, <1>5, SomeRead
<1>7. dns \in Seq(Address) /\ Len(dns) <= IF MaxServers < 2 THEN 2 ELSE MaxServers
  <2>1. CASE out # <<>>
    <3>1. dns = out
      BY <1>1, <2>1
    <3> QED
      BY <1>3, <1>5, <1>6, <3>1, Roomy
  <2>2. CASE out = <<>>
    <3>1. dns = other
      BY <1>1, <2>2
    <3> QED
      <4>1. Len(other) \in Nat
        BY <1>2, InNat
      <4> QED
        BY <1>2, <1>5, <3>1, <4>1, Roomy
  <2> QED
    BY <2>1, <2>2
<1>8. IF places = {} THEN ToSet(dns) = ToSet(ipcp) \ {None}
      ELSE \E a \in [DOMAIN dns -> places] :
             /\ InPlace(a, Len(dns), places, MaxServers)
             /\ \A k \in DOMAIN dns : EntryAt(text, a[k]) = <<dns[k]>>
  <2>1. CASE places = {}
    BY <1>1, <1>2, <1>6, <2>1
  <2>2. CASE places # {}
    BY <1>1, <1>3, <1>6, <2>2
  <2> QED
    BY <2>1, <2>2
<1> QED
  BY <1>7, <1>8 DEF places

(* The gateway: an address of the server if it has one. *)
LEMMA GatewayIs ==
  ASSUME NEW addresses, addresses # None => addresses \in Seq(Address \cup {"v6"})
  PROVE  /\ resolve_gateway(addresses) \in Address \cup {None}
         /\ addresses # None /\ ToSet(addresses) \cap Address # {} =>
              resolve_gateway(addresses) \in ToSet(addresses) \cap Address
<1> DEFINE C == Address \cup {"v6"}
<1>1. CASE addresses = None
  BY <1>1 DEF resolve_gateway
<1>2. CASE addresses # None
  <2> DEFINE I == {i \in 1 .. Len(addresses) : addresses[i] \in Address}
             i == SelectInSeq(addresses, LAMBDA a : a \in Address)
  <2>1. addresses \in Seq(C)
    BY <1>2
  <2> HIDE DEF C
  <2>2. I \subseteq Nat \ {0} /\ Len(addresses) \in Nat
    BY <2>1
  <2>3. i = IF I # {} THEN Min(I) ELSE 0
    BY DEF SelectInSeq
  <2>4. resolve_gateway(addresses) = IF i = 0 THEN None ELSE addresses[i]
    BY <1>2 DEF resolve_gateway
  <2>5. ToSet(addresses) = {addresses[k] : k \in 1 .. Len(addresses)}
    BY <2>1 DEF ToSet
  <2>6. CASE I = {}
    <3>1. i = 0
      BY <2>3, <2>6
    <3>2. ToSet(addresses) \cap Address = {}
      BY <2>5, <2>6
    <3> HIDE DEF i, I
    <3> QED
      BY <2>4, <3>1, <3>2
  <2>7. CASE I # {}
    <3>1. i \in I
      <4>1. I \subseteq Nat
        BY <2>2
      <4>2. Min(I) \in I
        <5> HIDE DEF I
        <5> QED
          BY <2>7, <4>1, Least
      <4> HIDE DEF I, i
      <4> QED
        BY <2>3, <2>7, <4>2
    <3>2. i # 0 /\ i \in 1 .. Len(addresses) /\ addresses[i] \in Address
      BY <2>2, <3>1
    <3> HIDE DEF i, I
    <3>3. addresses[i] \in ToSet(addresses)
      BY <2>5, <3>2
    <3> QED
      BY <2>4, <3>2, <3>3
  <2> QED
    BY <2>6, <2>7
<1> QED
  BY <1>1, <1>2

------------------------------------------------------------------------------
(* The calls carry what is made of the link, whatever became of the first. *)
Configured(l) ==
  [gateway |-> IF resolve_gateway(l.server) # None THEN resolve_gateway(l.server) ELSE l.peer]
Reported(l) ==
  [address |-> l.local, prefix |-> 32, ptp |-> l.peer,
   dns |-> add_dns(l.dns, l.ipcp), domain |-> l.suffix,
   routes |-> add_split_routes(l.routes).routes,
   never_default |-> add_split_routes(l.routes).never_default]

ReportInv ==
  /\ link \in Links
  /\ step \in {"up", "SetConfig", "SetIp4Config", "done"}
  /\ step \in {"SetConfig", "SetIp4Config"} => link.local # None
  /\ config # None => config = Configured(link)
  /\ ip4 # None => link.local # None /\ ip4 = Reported(link)

(* Each call is made once, of the link as it was found. *)
LEMMA ReportStep ==
  ASSUME ReportInv, [Next]_vars
  PROVE  ReportInv'
<1>1. CASE nm_ip_up
  BY <1>1 DEF nm_ip_up, ReportInv
<1>2. CASE SetConfig
  BY <1>2 DEF SetConfig, ReportInv, Configured
<1>3. CASE SetIp4Config
  BY <1>3 DEF SetIp4Config, ReportInv, Reported
<1>4. CASE UNCHANGED vars
  BY <1>4 DEF vars, ReportInv
<1> QED
  BY <1>1, <1>2, <1>3, <1>4 DEF Next

LEMMA Reports == Spec => []ReportInv
<1>1. Init => ReportInv
  BY DEF Init, ReportInv
<1>2. ReportInv /\ [Next]_vars => ReportInv'
  BY ReportStep
<1> QED
  BY <1>1, <1>2, PTL DEF Spec

(* What nm_ip_up may find. *)
LEMMA LinkIs ==
  ASSUME NEW l \in Links
  PROVE  /\ l.routes \in Seq(Chars) /\ l.dns \in Seq(Chars)
         /\ l.ipcp \in (Address \cup {None}) \X (Address \cup {None})
         /\ l.local \in Address \cup {None} /\ l.peer \in Address \cup {None}
         /\ l.server # None => l.server \in Seq(Address \cup {"v6"})
BY LinksAssumption

(* The two calls are typed: what they name as gateway, address, peer,      *)
(* route or name server is one, and neither array is written past its end  *)
(* (set_config, set_ip4_config, nmo_parse_routes, nmo_parse_dns).          *)
THEOREM TypeCorrect == Spec => []TypeOK
<1>1. ReportInv => TypeOK
  <2> SUFFICES ASSUME ReportInv PROVE TypeOK
    OBVIOUS
  <2> DEFINE split == add_split_routes(link.routes)
             dns   == add_dns(link.dns, link.ipcp)
  <2>1. link \in Links /\ step \in {"up", "SetConfig", "SetIp4Config", "done"}
    BY DEF ReportInv
  <2>2. ASSUME config # None PROVE config.gateway \in Address \cup {None}
    <3>1. resolve_gateway(link.server) \in Address \cup {None} /\ link.peer \in Address \cup {None}
      BY <2>1, LinkIs, GatewayIs
    <3> QED
      BY <2>2, <3>1 DEF ReportInv, Configured
  <2>3. ASSUME ip4 # None
        PROVE  /\ ip4.address \in Address /\ ip4.ptp \in Address \cup {None}
               /\ ip4.routes \in Seq(RouteType) /\ Len(ip4.routes) <= MaxRoutes
               /\ ip4.dns \in Seq(Address)
               /\ Len(ip4.dns) <= IF MaxServers < 2 THEN 2 ELSE MaxServers
               /\ ip4.never_default \in BOOLEAN
    <3>1. ip4 = Reported(link) /\ link.local # None
      BY <2>3 DEF ReportInv
    <3>2. /\ ip4.address = link.local /\ ip4.ptp = link.peer /\ ip4.routes = split.routes
          /\ ip4.dns = dns /\ ip4.never_default = split.never_default
      BY <3>1 DEF Reported
    <3> HIDE DEF split, dns
    <3>3. /\ split.routes \in Seq(RouteType) /\ Len(split.routes) <= MaxRoutes
          /\ split.never_default \in BOOLEAN
      BY <2>1, LinkIs, RoutesShown DEF split
    <3>4. dns \in Seq(Address) /\ Len(dns) <= IF MaxServers < 2 THEN 2 ELSE MaxServers
      BY <2>1, LinkIs, ServersShown DEF dns
    <3>5. link.local \in Address /\ link.peer \in Address \cup {None}
      BY <2>1, <3>1, LinkIs
    <3> QED
      BY <3>2, <3>3, <3>4, <3>5
  <2> QED
    BY <2>1, <2>2, <2>3 DEF TypeOK
<1> QED
  BY <1>1, Reports, PTL

(* NetworkManager gets every split route that is well formed, in order and *)
(* without a gap up to the size of the array, and no other, however the    *)
(* prefix length is written (nmo_parse_routes, add_split_routes).          *)
THEOREM RoutesCorrect == Spec => []RoutesAreInstalled
<1>1. ReportInv => RoutesAreInstalled
  <2> SUFFICES ASSUME ReportInv, ip4 # None
               PROVE  \E at \in [DOMAIN ip4.routes -> RoutePlaces(link.routes)] :
                        /\ InPlace(at, Len(ip4.routes), RoutePlaces(link.routes), MaxRoutes)
                        /\ \A k \in DOMAIN ip4.routes :
                             RouteWritten(EntryAt(link.routes, at[k]), ip4.routes[k])
    BY DEF RoutesAreInstalled
  <2> DEFINE split == add_split_routes(link.routes)
  <2>1. link \in Links /\ ip4.routes = split.routes
    BY DEF ReportInv, Reported
  <2> HIDE DEF split
  <2>2. link.routes \in Seq(Chars)
    BY <2>1, LinkIs
  <2>3. \E at \in [DOMAIN split.routes -> RoutePlaces(link.routes)] :
              /\ InPlace(at, Len(split.routes), RoutePlaces(link.routes), MaxRoutes)
              /\ \A k \in DOMAIN split.routes :
                   RouteWritten(EntryAt(link.routes, at[k]), split.routes[k])
    BY <2>2, RoutesShown DEF split
  <2> QED
    BY <2>1, <2>3
<1> QED
  BY <1>1, Reports, PTL

(* A tunnel is kept from becoming the default route exactly when one of    *)
(* its routes can be read (add_split_routes).                              *)
THEOREM SplitCorrect == Spec => []SplitStaysSplit
<1>1. ReportInv => SplitStaysSplit
  <2> SUFFICES ASSUME ReportInv, ip4 # None
               PROVE  ip4.never_default <=> RoutePlaces(link.routes) # {}
    BY DEF SplitStaysSplit
  <2> DEFINE split == add_split_routes(link.routes)
  <2>1. link \in Links /\ ip4.never_default = split.never_default
    BY DEF ReportInv, Reported
  <2> HIDE DEF split
  <2>2. link.routes \in Seq(Chars)
    BY <2>1, LinkIs
  <2>3. split.never_default <=> RoutePlaces(link.routes) # {}
    BY <2>2, RoutesShown DEF split
  <2> QED
    BY <2>1, <2>3
<1> QED
  BY <1>1, Reports, PTL

(* The name servers are those crosswire names, in order; those pppd        *)
(* negotiated only when it names none that can be read (add_dns).          *)
THEOREM ServersCorrect == Spec => []ServersAreTheGateways
<1>1. ReportInv => ServersAreTheGateways
  <2> SUFFICES ASSUME ReportInv, ip4 # None
               PROVE  IF ServerPlaces(link.dns) = {}
                      THEN ToSet(ip4.dns) = ToSet(link.ipcp) \ {None}
                      ELSE \E at \in [DOMAIN ip4.dns -> ServerPlaces(link.dns)] :
                             /\ InPlace(at, Len(ip4.dns), ServerPlaces(link.dns), MaxServers)
                             /\ \A k \in DOMAIN ip4.dns : EntryAt(link.dns, at[k]) = <<ip4.dns[k]>>
    BY DEF ServersAreTheGateways
  <2> DEFINE dns == add_dns(link.dns, link.ipcp)
  <2>1. link \in Links /\ ip4.dns = dns
    BY DEF ReportInv, Reported
  <2> HIDE DEF dns
  <2>2. /\ link.dns \in Seq(Chars)
        /\ link.ipcp \in (Address \cup {None}) \X (Address \cup {None})
    BY <2>1, LinkIs
  <2>3. IF ServerPlaces(link.dns) = {} THEN ToSet(dns) = ToSet(link.ipcp) \ {None}
        ELSE \E at \in [DOMAIN dns -> ServerPlaces(link.dns)] :
               /\ InPlace(at, Len(dns), ServerPlaces(link.dns), MaxServers)
               /\ \A k \in DOMAIN dns : EntryAt(link.dns, at[k]) = <<dns[k]>>
    BY <2>2, ServersShown, ZenonT(60) DEF dns
  <2> QED
    BY <2>1, <2>3
<1> QED
  BY <1>1, Reports, PTL

(* The pinned host route leads to an IPv4 address of the VPN server        *)
(* whenever it has one, wherever among its addresses (resolve_gateway_u32, *)
(* set_config).                                                            *)
THEOREM ServerPinned == Spec => []ServerIsPinned
<1>1. ReportInv => ServerIsPinned
  <2> SUFFICES ASSUME ReportInv, config # None, link.server # None,
                      ToSet(link.server) \cap Address # {}
               PROVE  config.gateway \in ToSet(link.server) \cap Address
    BY DEF ServerIsPinned
  <2> DEFINE server == resolve_gateway(link.server)
  <2>1. link \in Links /\ config.gateway = IF server # None THEN server ELSE link.peer
    BY DEF ReportInv, Configured
  <2> HIDE DEF server
  <2>2. server \in ToSet(link.server) \cap Address
    BY <2>1, LinkIs, GatewayIs DEF server
  <2>3. server # None
    BY <2>2, ParamsAssumption
  <2> QED
    BY <2>1, <2>2, <2>3
<1> QED
  BY <1>1, Reports, PTL
==============================================================================

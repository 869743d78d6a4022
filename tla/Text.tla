--------------------------------- MODULE Text ---------------------------------
(***************************************************************************)
(* Texts are sequences of characters; the operations on them that the      *)
(* plugin and the service use.                                             *)
(***************************************************************************)
EXTENDS Integers, SequencesExt

(* FoldLeft, along the text: what Step has made of it up to its end. *)
Along(Step(_, _), start, text) ==
  LET made[i \in 0 .. Len(text)] ==
        IF i = 0 THEN start ELSE LET before == made[i - 1] IN Step(before, text[i])
  IN made[Len(text)]

(* The maximal runs of characters that are no separators: strtok_r, or     *)
(* split() without its empty parts.                                        *)
WordsStep(separators, read, c) ==
  IF c \in separators THEN [read EXCEPT !.open = FALSE]
  ELSE [words |-> IF read.open THEN Append(Front(read.words), Append(Last(read.words), c))
                  ELSE Append(read.words, <<c>>),
        open  |-> TRUE]
Words(text, separators) ==
  LET Step(read, c) == WordsStep(separators, read, c)
  IN Along(Step, [words |-> <<>>, open |-> FALSE], text).words

(* What follows the leading characters of a kind, and those characters.    *)
After(text, kind) ==
  LET i == SelectInSeq(text, LAMBDA c : c \notin kind)
  IN IF i = 0 THEN <<>> ELSE SubSeq(text, i, Len(text))
Leading(text, kind) == SubSeq(text, 1, Len(text) - Len(After(text, kind)))
==============================================================================

--------------------------- MODULE UrduPostProcessor ---------------------------
(***************************************************************************)
(* UrduPostProcessor.process (voicebridge/translation/                     *)
(* urdu_postprocessor.py): it puts placeholders where amounts, numbers and *)
(* links are, rewrites literal phrases, and puts the originals back.       *)
(*                                                                         *)
(* A text is a sequence of atoms: a digit, "$", "link" (https:// and a     *)
(* host, to which what follows is attached), "word" (with the spaces       *)
(* around it), "phrase" and what it is rewritten to, "idiom", and the two  *)
(* ends of a placeholder.  Dates are protected like amounts, before the    *)
(* numbers, and addresses like links, after them.                          *)
(***************************************************************************)
EXTENDS Naturals, SequencesExt

Digits == <<"0", "1", "2", "3", "4", "5", "6", "7", "8", "9">>
DigitSet == ToSet(Digits)
Spaced == {"word", "phrase", "idiom"}

\* The n-th placeholder, counted from 0: __ENTITY_n__.
Placeholder(n) == <<"__ENTITY_", Digits[n + 1], "__">>

-----------------------------------------------------------------------------
(* Patterns, as the intervals of a text that findall matches.               *)

\* The intervals are pairs of their first and last position.
Intervals(text) == {s \in (DOMAIN text) \X (DOMAIN text) : s[1] <= s[2]}

\* The digits from i to j, as many as there are.
IsRun(text, i, j) ==
  /\ \A k \in i .. j : text[k] \in DigitSet
  /\ j = Len(text) \/ text[j + 1] \notin DigitSet

\* "$" and digits.
Amounts(text) ==
  {s \in Intervals(text) : s[1] < s[2] /\ text[s[1]] = "$" /\ IsRun(text, s[1] + 1, s[2])}

\* Digits at the beginning of a word: an underscore is a letter of it.
Numbers(text) ==
  {s \in Intervals(text) :
     /\ IsRun(text, s[1], s[2])
     /\ s[1] = 1 \/ text[s[1] - 1] \notin DigitSet \cup {"__ENTITY_", "__"}}

\* A link and all that follows it up to a space.
Links(text) ==
  {s \in Intervals(text) :
     /\ s[1] < s[2] /\ text[s[1]] = "link"
     /\ \A k \in s[1] .. s[2] : text[k] \notin Spaced
     /\ s[2] = Len(text) \/ text[s[2] + 1] \in Spaced
     /\ \A k \in 1 .. (s[1] - 1) : text[k] = "link" => \E l \in k .. s[1] : text[l] \in Spaced}

\* What findall returns: the matched texts, from left to right.
FindAll(matches, text) ==
  LET inOrder == SetToSortSeq(matches, LAMBDA m, n : m[1] < n[1])
  IN  [n \in DOMAIN inOrder |-> SubSeq(text, inOrder[n][1], inOrder[n][2])]

-----------------------------------------------------------------------------
(* process.                                                                *)

\* The first occurrence of the entity gives way to the next placeholder.
Protect(doc, entity) ==
  [text |-> ReplaceFirstSubSeq(Placeholder(Len(doc.table)), entity, doc.text),
   table |-> Append(doc.table, entity)]

ProtectAll(doc, entities) == FoldLeft(Protect, doc, entities)

\* Amounts before numbers before links, each found in what the one before left.
Protected(raw) ==
  LET start   == [text |-> raw, table |-> <<>>]
      amounts == ProtectAll(start, FindAll(Amounts(raw), raw))
      numbers == ProtectAll(amounts, FindAll(Numbers(amounts.text), amounts.text))
  IN  ProtectAll(numbers, FindAll(Links(numbers.text), numbers.text))

Rewrite(text) == [i \in DOMAIN text |-> IF text[i] = "phrase" THEN "idiom" ELSE text[i]]

\* All occurrences of the placeholder, which never overlap, give way to the original.
PutBack(original, placeholder, text) ==
  LET last == Len(placeholder) - 1
      starts == {i \in 1 .. Len(text) - last : SubSeq(text, i, i + last) = placeholder}
  IN  FlattenSeq([k \in DOMAIN text |->
        IF k \in starts THEN original
        ELSE IF \E i \in starts : i < k /\ k <= i + last THEN <<>> ELSE <<text[k]>>])

\* The placeholders in the order in which they were handed out.
Restore(text, table) ==
  FoldLeftDomain(LAMBDA t, n : PutBack(table[n], Placeholder(n - 1), t), text, table)

Process(raw) ==
  LET doc == Protected(raw)
  IN  Restore(Rewrite(doc.text), doc.table)

-----------------------------------------------------------------------------
(* What process is for.                                                    *)

\* The numbers of a text outside its links.
Numerals(text) ==
  {s \in Numbers(text) : ~ \E l \in Links(text) : l[1] <= s[1] /\ s[2] <= l[2]}

\* No digit in a link, and no number of one digit that is also the number of a
\* placeholder.
Plain(text) ==
  /\ \A l \in Links(text) : \A k \in l[1] .. l[2] : text[k] \notin DigitSet
  /\ \A m \in Numerals(text) :
       m[1] = m[2] =>
         text[m[1]] \notin {Digits[n] : n \in 1 .. Cardinality(Numerals(text) \cup Amounts(text))}
=============================================================================

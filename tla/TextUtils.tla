------------------------------ MODULE TextUtils ------------------------------
(***************************************************************************)
(* The pure text rules of voicebridge/pipeline/text_utils.py that decide   *)
(* what the sentence buffer accepts and releases.                          *)
(*                                                                         *)
(* A text is a sequence of tokens.  A token is a word or a sentence-ending *)
(* mark; it carries its kind and the place where it was spoken (segment    *)
(* and position), so two tokens are never the same token by accident.      *)
(* Case folding, spacing and the spelling of words are not kept: a word is *)
(* known by its kind, and NoisePhrases holds the kind sequences that       *)
(* looks_like_noise rejects (a configured phrase, a non-speech tag, a      *)
(* stuck word).                                                            *)
(***************************************************************************)
EXTENDS Naturals, Sequences, FiniteSets, SequencesExt

CONSTANT NoisePhrases   \* kind sequences that are noise whatever their punctuation

IsMark(token) == token.kind = "mark"

Words(text) == SelectSeq(text, LAMBDA token : ~IsMark(token))

CountWords(text) == Cardinality({i \in 1 .. Len(text) : ~IsMark(text[i])})

EndsWithMark(text) == text # <<>> /\ IsMark(text[Len(text)])

Kinds(text) == [i \in 1 .. Len(text) |-> text[i].kind]

\* Empty text and text made of punctuation alone have no words: both are noise.
LooksLikeNoise(text) == Kinds(Words(text)) \in NoisePhrases \cup {<<>>}

-----------------------------------------------------------------------------
(* split_complete_sentences: one sentence per mark, and the unfinished tail. *)

\* The n-th smallest of the positions P in 1 .. m: how many positions have
\* fewer than n members of P before them.  (A definition without recursion or
\* CHOOSE, so that its bounds can be proved.)
Nth(P, n, m) == Cardinality({i \in 1 .. m : Cardinality(P \cap (1 .. (i - 1))) < n})

\* The elements of s at the positions P, in order.
Pick(s, P) == [n \in 1 .. Cardinality(P) |-> s[Nth(P, n, Len(s))]]

Marks(text) == {i \in 1 .. Len(text) : IsMark(text[i])}

\* Where the n-th sentence ends (0 for n = 0).
SentenceEnd(text, n) == Nth(Marks(text), n, Len(text))

CompleteSentences(text) ==
  [n \in 1 .. Cardinality(Marks(text)) |->
     SubSeq(text, SentenceEnd(text, n - 1) + 1, SentenceEnd(text, n))]

Remainder(text) ==
  SubSeq(text, SentenceEnd(text, Cardinality(Marks(text))) + 1, Len(text))

-----------------------------------------------------------------------------
LoneWord(text) == CountWords(text) <= 1 /\ ~EndsWithMark(text)

\* A lone word is accepted only when it continues a buffer that has text.
ShouldAccept(text, bufferHasText) ==
  /\ ~LooksLikeNoise(text)
  /\ LoneWord(text) => bufferHasText

ShouldTranslate(text) == ~LooksLikeNoise(text) /\ ~LoneWord(text)

Translatable(sentences) ==
  Pick(sentences, {k \in 1 .. Len(sentences) : ShouldTranslate(sentences[k])})
=============================================================================

----------------------------- MODULE MCTranslation -----------------------------
(* Instances of Translation, and all short texts through the post-processor. *)
EXTENDS Translation

\* What the backends answer: one text for a request into English, two into Urdu.
MCSays ==
  [en |-> {<<"word">>},
   ur |-> {<<"phrase", "$", "9", "8">>, <<"5", "word", "8", "7">>}]

\* The Urdu answers begin with a number, or end with a link to a numbered page.
MCNumbered ==
  [en |-> {<<"word">>}, ur |-> {<<"1", "word", "0">>, <<"link", "9", "7">>}]

\* process keeps all that it protects in each plain text of at most four atoms.
Texts == UNION {[1 .. n -> {"0", "1", "2", "$", "link", "word", "phrase"}] : n \in 0 .. 4}
ASSUME PlainTextsAreKept ==
  \A raw \in Texts : Plain(raw) => Process(raw) = Rewrite(raw)
=============================================================================

-------------------------- MODULE MCDirectionWorker --------------------------
(* Instances of DirectionWorker for TLC. *)
EXTENDS DirectionWorker

\* What looks_like_noise rejects: the text of a lone "bye".
MCNoise == {<<"bye">>}

\* Two unfinished words; a one-word sentence with a word after it.  Two of them
\* in a row join, reach the word limit, complete a sentence or leave a lone word.
MCFragments == {<<"word", "word">>, <<"word", "mark", "word">>}
=============================================================================

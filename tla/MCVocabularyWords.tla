------------------------- MODULE MCVocabularyWords -------------------------
(* VocabularyWords on a small instance: the values are in the .cfg file. *)
EXTENDS VocabularyWords

(* No word, one word and two words. *)
MCFirstItems == {<<0, 0>>, <<1, 0>>, <<1, 2>>}
=============================================================================

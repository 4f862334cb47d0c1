--------------------------- MODULE MCCreateCommand ----------------------------
(***************************************************************************)
(* The instance of CreateCommand that TLC checks: short names, with every  *)
(* kind of word at every place.                                            *)
(***************************************************************************)
EXTENDS CreateCommand

\* One word and two; words that end with a digit or begin with one; a letter
\* alone at the beginning and in the middle; no word.
MCAzure        == <<<<"a">>>>
MCDriverNames  == {MCAzure, <<<<"a">>, <<"b">>>>}
MCOptions      == {<<>>, <<<<"a">>>>, <<<<"a", "b">>>>,
                   <<<<"b", "1">>, <<"a">>>>, <<<<"a", "b">>, <<"1", "a">>>>,
                   <<<<"a">>, <<"a", "b">>, <<"a", "b">>>>,
                   <<<<"a", "b">>, <<"a">>, <<"a", "b">>>>}
MCCertificates == <<<<"a">>, <<"a", "b">>>>

=============================================================================

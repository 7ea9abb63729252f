---------------------------- MODULE MCNamespace ----------------------------
(***************************************************************************)
(* Instances of Namespace for TLC.                                         *)
(***************************************************************************)
EXTENDS Namespace

Same == {<<n, n>> : n \in Names}

\* /, /d, /d/f, /g: a directory with a file in it and a file beside it.
TreePaths == {<<>>, <<"d">>, <<"d", "f">>, <<"g">>}

\* /, /f, /ff: one name is the beginning of the other.
PrefixPaths == {<<>>, <<"f">>, <<"ff">>}

Prefix == {<<"f", "f">>, <<"ff", "ff">>, <<"f", "ff">>}

\* /, /c, /d and one file in each.
TwinPaths == {<<>>, <<"c">>, <<"d">>, <<"c", "f">>, <<"d", "g">>}
=============================================================================

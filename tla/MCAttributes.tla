---------------------------- MODULE MCAttributes ----------------------------
(***************************************************************************)
(* Instances of Attributes for TLC.                                        *)
(***************************************************************************)
EXTENDS Attributes

SimpleValues == {<<"x">>, <<"y">>}

\* An empty value is an empty line.
EmptyOrNot == {<<"x">>, <<"">>}

XattrOps == {"setxattr", "removexattr", "readlink"}

AllOps == {"chmod", "chown", "write", "link", "unlink", "setxattr", "removexattr",
           "getattr", "getxattr", "listxattr"}

Same == {<<n, n>> : n \in XNames \cup {"st_content"}}

Symlink == <<"st_content", "/target">>

Nothing == <<>>
=============================================================================

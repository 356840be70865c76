--------------------------- MODULE MCSnapshotVerify ---------------------------
(* Instances of SnapshotVerify for TLC. *)
EXTENDS SnapshotVerify

\* Two files of two blocks, one name that should not be there, one ignored.
TwoFiles   == <<"a", "b">>
FourNames  == <<"cache", "a", "b", "x">>

n1 == "n1"
n2 == "n2"
n3 == "n3"
link == "symlink"

Tree4(cache, a, b, x) ==
  [f \in {"cache", "a", "b", "x"} |->
     CASE f = "cache" -> cache [] f = "a" -> a [] f = "b" -> b [] f = "x" -> x]

\* Blocks of the nodes that are not as expected.
Bad(S) == [n \in Nodes |-> [b \in 1 .. Blocks |-> <<n, b>> \notin S]]

\* A tree as it should be, one with a bad block in its first or second file,
\* one with a file too many, too few, linked twice, and one with a symlink.
Starts ==
  { [entry |-> Tree4(n3, n1, n2, None), data |-> Bad({})],
    [entry |-> Tree4(n3, n1, n2, None), data |-> Bad({<<n1, 2>>})],
    [entry |-> Tree4(n3, n1, n2, None), data |-> Bad({<<n2, 1>>, <<n3, 1>>})],
    [entry |-> Tree4(None, n1, n2, n3), data |-> Bad({})],
    [entry |-> Tree4(n3, n1, None, None), data |-> Bad({})],
    [entry |-> Tree4(n2, n1, n2, None), data |-> Bad({})],
    [entry |-> Tree4(n3, link, n2, None), data |-> Bad({})] }
=============================================================================

----------------------------- MODULE MCMultipart -----------------------------
(***************************************************************************)
(* Model-checking instance of Multipart: one upload of a top-level key,   *)
(* two part numbers, two concurrent request slots, two body shapes.        *)
(***************************************************************************)
EXTENDS Multipart

CONSTANTS p1, p2, RootDir, None, ZeroByte

MPProcs    == {p1, p2}
MPBlocks   == {"a", "b"}
\* A long body and a shorter one that is not a prefix of it.
MPBodies   == {<<"a", "b">>, <<"b">>}
MPKeys     == {"k"}
MPParent   == [k \in MPKeys |-> RootDir]
MPPartNums == {1, 2}
=============================================================================

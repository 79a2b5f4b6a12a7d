---------------------------- MODULE MCObjectStore ----------------------------
(***************************************************************************)
(* Model-checking instance of ObjectStore: one bucket, two concurrent      *)
(* request slots, two body shapes of different lengths.                    *)
(***************************************************************************)
EXTENDS ObjectStore

CONSTANTS p1, p2, RootDir, None

MCProcs   == {p1, p2}
MCDirs    == {"d"}
MCBlocks  == {"a", "b"}
\* A long body and a shorter one that is not a prefix of it.
MCBodies  == {<<"a", "b">>, <<"b">>}

\* A top-level key and a key in sub-directory "d".
MCKeys    == {"x", "d/y"}
MCParent  == [k \in MCKeys |-> IF k = "x" THEN RootDir ELSE "d"]

\* Two keys sharing the sub-directory "d".
MCSiblingKeys   == {"d/y", "d/z"}
MCSiblingParent == [k \in MCSiblingKeys |-> "d"]
=============================================================================

------------------------------ MODULE MCListing ------------------------------
(* Bucket trees over the names "a", "a." and "b" (bytes 97, 46, 98), at   *)
(* most two levels deep: "a." sorts after "a" as a name while "a." sorts  *)
(* before "a/..." as a key, since '.' < '/'.  Each file may lack its      *)
(* sidecar (an unfinished or orphaned write).                              *)
EXTENDS Listing

A  == <<97>>
AD == <<97, 46>>
B  == <<98>>

MCPaths == {<<A>>, <<AD>>, <<B>>, <<A, B>>, <<A, AD>>}

\* No file is also a directory on the way to another file.
Consistent(F) == \A f, g \in F : ~IsStrictPrefix(f, g)

MCTrees == UNION { {[files |-> F, metas |-> M] : M \in SUBSET F} :
                   F \in {G \in SUBSET MCPaths : Consistent(G)} }

MCPrefixes == {<<>>, <<A>>, <<AD>>, <<B>>, <<A, B>>}
=============================================================================

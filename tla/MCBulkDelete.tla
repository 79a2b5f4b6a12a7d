----------------------------- MODULE MCBulkDelete -----------------------------
(* A storage root "data" with _staging, bucket b1 (objects k and d/k),    *)
(* bucket b2 (object k) and no b3 yet.  The keys are the valid keys a     *)
(* client uses (k, d/k, k/) and keys that probe each rule of valid_key or *)
(* climb out of the bucket with a leading "..".                           *)
EXTENDS BulkDelete

Obj(p)  == <<"data">> \o p
Meta(p) == <<"data">> \o Front(p) \o <<Last(p) \o "@@META@@">>

MCFiles == UNION {{Obj(p), Meta(p)} : p \in {<<"b1", "k">>, <<"b1", "d", "k">>, <<"b2", "k">>}}
MCDirs  == {<<"data">>, <<"data", "_staging">>, <<"data", "b1">>, <<"data", "b1", "d">>,
            <<"data", "b2">>}

MCKeys == {<<"k">>, <<"d", "k">>, <<"k", "">>, <<"d", "..">>,
           <<"..", "b2", "k">>, <<"..", "b3">>, <<"..", "_staging">>,
           <<"", "k">>, <<"d", "..", "k">>, <<"d", ".", "k">>, <<"a$">>, <<"k@@META@@">>}

MCKeyLists == {<<k>> : k \in MCKeys} \cup {<<<<"d", "k">>, <<"..", "b2", "k">>>>}
=============================================================================

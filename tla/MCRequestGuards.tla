------------------------- MODULE MCRequestGuards -------------------------
(* Request shapes: every method the routes use, zero to three path       *)
(* segments, every set of the query keys the routes and guards read,     *)
(* list-type 1 or 2, partNumber a u32.  GETs of an object also carry a    *)
(* Range header over offsets 0..3 and one number beyond usize, on files  *)
(* of 0 to 3 bytes.                                                      *)
EXTENDS RequestGuards

QueryKeys == {"location", "list-type", "uploads", "uploadId", "partNumber", "delete"}
NoRange == [kind |-> "absent", a |-> 0, b |-> 0]
Offsets == 0..3 \cup {UsizeMod}

RoutingShapes ==
    { [method |-> m, segs |-> n, q |-> q, lt |-> lt, pn |-> "u32", range |-> NoRange, size |-> 2] :
        m \in {"GET", "PUT", "POST", "DELETE"}, n \in 0..3, q \in SUBSET QueryKeys,
        lt \in {"1", "2"} }

RangeHeaders ==
    {NoRange, [kind |-> "suffix", a |-> 1, b |-> 0], [kind |-> "multi", a |-> 0, b |-> 1]}
    \cup { [kind |-> "open", a |-> a, b |-> 0] : a \in Offsets }
    \cup { [kind |-> "closed", a |-> a, b |-> b] : a, b \in Offsets }

RangedGets ==
    { [method |-> "GET", segs |-> 2, q |-> {}, lt |-> "1", pn |-> "u32", range |-> h, size |-> s] :
        h \in RangeHeaders, s \in 0..3 }

MCRequests == RoutingShapes \cup RangedGets
=============================================================================

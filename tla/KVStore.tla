------------------------------- MODULE KVStore -------------------------------
(***************************************************************************)
(* What the bucket store promises to writers (spec.md 3 and 4.3): every    *)
(* object is replaced as a whole by the body of one PUT, or removed, at a  *)
(* single instant of the request; a request that is answered 200 has had  *)
(* its effect, a request answered with an error has had none, and a        *)
(* crashed request is never answered.                                      *)
(*                                                                         *)
(* store    - the visible objects: a function from the keys that exist to  *)
(*            their bodies.                                                *)
(* pending  - per request slot, the write in progress, or how the last    *)
(*            one was answered.                                            *)
(***************************************************************************)
EXTENDS TLC

CONSTANTS Keys, Bodies, Procs, NoKey

VARIABLES store, pending

vars == <<store, pending>>

Phases == {"idle", "open", "committed", "ok", "error"}

NoReq == [op |-> "none", key |-> NoKey, val |-> <<>>, phase |-> "idle"]

Answered(p) == pending[p].phase \in {"idle", "ok", "error"}

Init ==
    /\ store = << >>
    /\ pending = [p \in Procs |-> NoReq]

\* A client sends a PUT of v, or a DELETE, on key k.
Begin(p, op, k, v) ==
    /\ Answered(p)
    /\ pending' = [pending EXCEPT ![p] =
                     [op |-> op, key |-> k, val |-> v, phase |-> "open"]]
    /\ UNCHANGED store

\* The client moves on to a request this abstraction does not track.
Forget(p) ==
    /\ pending[p].phase \in {"ok", "error"}
    /\ pending' = [pending EXCEPT ![p] = NoReq]
    /\ UNCHANGED store

\* The single instant at which the write takes effect.
Commit(p) ==
    LET r == pending[p] IN
    /\ r.phase = "open"
    /\ store' = IF r.op = "put"
                  THEN (r.key :> r.val) @@ store
                  ELSE [k \in DOMAIN store \ {r.key} |-> store[k]]
    /\ pending' = [pending EXCEPT ![p].phase = "committed"]

ReplyOk(p) ==
    /\ pending[p].phase = "committed"
    /\ pending' = [pending EXCEPT ![p] = [NoReq EXCEPT !.phase = "ok"]]
    /\ UNCHANGED store

ReplyError(p) ==
    /\ pending[p].phase = "open"
    /\ pending' = [pending EXCEPT ![p] = [NoReq EXCEPT !.phase = "error"]]
    /\ UNCHANGED store

\* The process dies: requests in flight are never answered, store survives.
Crash ==
    /\ pending' = [p \in Procs |-> IF Answered(p) THEN pending[p] ELSE NoReq]
    /\ UNCHANGED store

Next ==
    \/ \E p \in Procs :
         \/ \E k \in Keys, v \in Bodies : Begin(p, "put", k, v)
         \/ \E k \in Keys : Begin(p, "del", k, <<>>)
         \/ Forget(p) \/ Commit(p) \/ ReplyOk(p) \/ ReplyError(p)
    \/ Crash

Spec == Init /\ [][Next]_vars

=============================================================================

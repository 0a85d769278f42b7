--------------------------- MODULE MCRateLimiter ----------------------------
(* A model-checking instance of RateLimiter: two names share a shard of    *)
(* one, so that each evicts the other while its credit is being spent; the *)
(* aggregate account has a shard of its own.                               *)
EXTENDS RateLimiter

CONSTANTS n1, n2, all

MCNames == {n1, n2}

MCRate == [k \in {n1, n2, all} |-> IF k = all THEN 2 ELSE 1]

MCShard == [k \in {n1, n2, all} |-> IF k = all THEN 1 ELSE 0]
=============================================================================

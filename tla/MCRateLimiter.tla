---------------------------- MODULE MCRateLimiter ----------------------------
(***************************************************************************)
(* Two handlers, which are interchangeable, and limits that differ.        *)
(***************************************************************************)
EXTENDS RateLimiter, TLC

MCLimits == [c \in Classes |-> IF c = "override" THEN 1 ELSE 2]
Symmetry == Permutations(Handlers)
=============================================================================

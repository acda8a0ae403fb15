------------------------------- MODULE Rewriter -------------------------------
(***************************************************************************)
(* How a consensus aware group rewrites the blocks a call names            *)
(* (rewriter.go, OverwriteConsensusResponses in backend.go): tags become   *)
(* the numbers of the consensus state, later blocks are refused, and so    *)
(* are ranges that are too long.                                           *)
(*                                                                         *)
(* A value of a parameter is what its decoding tells apart: a tag, a       *)
(* number, a hash, an empty string, a string that is no block, null, or    *)
(* neither a string nor a block.  An object with a block number or hash is *)
(* the number or hash in it, with `object` set.  eth_getLogs is taken to   *)
(* have its one object.                                                    *)
(***************************************************************************)
EXTENDS Naturals, Sequences

CONSTANTS
    MaxBlock,       \* largest block number asked for
    MaxBlockRanges, \* values of consensus_max_block_range
    Words           \* 2^64, or the modulus that stands for it

ASSUME RewriterAssumption ==
    /\ MaxBlock \in Nat /\ Words \in Nat
    /\ \A r \in MaxBlockRanges : r \in Nat /\ r + MaxBlock + 1 < Words

Tags == {"latest", "safe", "finalized"}
V(kind, n, object) == [kind |-> kind, n |-> n, object |-> object]
Plain(kind) == V(kind, 0, FALSE)
Strings ==
    {Plain(k) : k \in Tags \cup {"pending", "earliest", "hash", "junk", "empty"}}
        \cup {V("number", n, FALSE) : n \in 0..MaxBlock}
Objects ==
    {V("hash", 0, TRUE)} \cup {V("number", n, TRUE) : n \in 0..MaxBlock}
        \cup {V(k, 0, TRUE) : k \in Tags \cup {"pending", "earliest", "null"}}
Values == Strings \cup Objects \cup {Plain("nonString")}
Absent == Plain("absent")
Ends   == Strings \cup {Absent, Plain("nonString"), V("null", 0, TRUE)}

VARIABLES
    rctx,       \* the RewriteContext
    call,       \* the kind of method, and its parameters
    result,     \* a RewriteResult, or pending
    params      \* the parameters forwarded

rewriteVars == <<rctx, call, result, params>>

(* RewriteRequest's table: where the block is, whether it must be there,   *)
(* and whether it may be an object.                                        *)
Methods == [eth_getLogs          |-> [pos |-> 0, required |-> FALSE, object |-> FALSE],
            debug_getRawReceipts |-> [pos |-> 0, required |-> TRUE,  object |-> FALSE],
            eth_call             |-> [pos |-> 1, required |-> FALSE, object |-> TRUE],
            eth_getStorageAt     |-> [pos |-> 2, required |-> FALSE, object |-> TRUE],
            eth_getBlockByNumber |-> [pos |-> 0, required |-> FALSE, object |-> FALSE]]

Contexts == [latest : 0..MaxBlock, safe : 0..MaxBlock, finalized : 0..MaxBlock,
             maxBlockRange : MaxBlockRanges]

(* Parameters are how many come `before` the block, then the block, which  *)
(* may be absent; those of eth_getLogs are the two ends of its range.      *)
Calls ==
    [method : {"eth_blockNumber", "eth_chainId"}, before : {0}, block : {Absent}]
    \cup {c \in [method : DOMAIN Methods \ {"eth_getLogs"}, before : 0..2,
                 block : Values \cup {Absent}] :
             /\ c.before <= Methods[c.method].pos
             /\ c.before < Methods[c.method].pos => c.block = Absent}
    \cup [method : {"eth_getLogs"}, from : Ends,
          to : Ends]

-----------------------------------------------------------------------------
Error == [ok |-> FALSE, rw |-> FALSE, val |-> Absent]
Same(v) == [ok |-> TRUE, rw |-> FALSE, val |-> v]

Beyond(n) == n > rctx.latest

(* Mutant: every tag is taken for the latest block.                        *)
RewriteTagLatest(v, object) ==
    IF v.kind \in Tags
    THEN [ok |-> TRUE, rw |-> TRUE, val |-> V("number", rctx.latest, object)]
    ELSE IF v.kind \in {"hash", "null", "pending", "earliest"} THEN Same(v) ELSE Error

(* rewriteTag, and rewriteTagBlockNumberOrHash, whose result is an object; *)
(* null decodes to neither a number nor a hash, and is left like a hash.   *)
RewriteTag(v, object) ==
    CASE v.kind \in {"junk", "empty", "nonString"} -> Error
      [] v.kind \in {"hash", "null", "pending", "earliest"} -> Same(v)
      [] v.kind \in Tags -> [ok |-> TRUE, rw |-> TRUE, val |-> V("number", rctx[v.kind], object)]
      [] v.kind = "number" -> IF Beyond(v.n) THEN Error ELSE Same(v)

Outcome(r, p) == result' = r /\ params' = p

(* Mutant: a missing block is left to the backend also if it is the next.  *)
DefaultNever(before, m) == FALSE

(* "we assume latest if the param is missing"                              *)
Default(before, m) == before = m.pos /\ ~m.required

(* rewriteParam: "we don't rewrite if there is not enough params".         *)
RewriteParam(c) ==
    LET m == Methods[c.method]
        v == IF c.block = Absent /\ Default(c.before, m) THEN Plain("latest") ELSE c.block
        new == RewriteTag(v, m.object)
    IN IF v = Absent
       THEN Outcome("none", c)
       ELSE IF (v.object /\ ~m.object) \/ ~new.ok THEN Outcome("error", c)
       ELSE IF new.rw THEN Outcome("request", [c EXCEPT !.block = new.val])
       ELSE Outcome("none", c)

(* rewriteTagMap: a missing end, null and an empty one are left alone.     *)
RewriteEnd(v) == IF v.kind \in {"absent", "null", "empty"} THEN Same(v) ELSE RewriteTag(v, FALSE)

(* blockNumber, of an end that has been rewritten.                         *)
Number(v) ==
    CASE v.kind = "earliest" -> 0
      [] v.kind = "pending"  -> rctx.latest + 1
      [] v.kind = "number"   -> v.n
      [] OTHER -> Words      \* an error

(* Mutant: a difference that does not wrap around, below zero or not.      *)
LongerSigned(from, to) == to > from + rctx.maxBlockRange

(* to-from is unsigned: a range that is turned around is a long one.       *)
Longer(from, to) == (to + Words - from) % Words > rctx.maxBlockRange

(* The other end of a range defaults to the latest block.                  *)
End(v, other) == IF v = Absent /\ other # Absent THEN Plain("latest") ELSE v

RewriteRange(c) ==
    LET from == RewriteEnd(End(c.from, c.to))
        to   == RewriteEnd(End(c.to, c.from))
        limited == rctx.maxBlockRange > 0 /\ (c.from # Absent \/ c.to # Absent)
    IN IF ~from.ok \/ ~to.ok THEN Outcome("error", c)
       ELSE IF limited /\ \/ Words \in {Number(from.val), Number(to.val)}
                          \/ Longer(Number(from.val), Number(to.val))
       THEN Outcome("error", c)
       ELSE IF from.rw \/ to.rw
       THEN Outcome("request", [c EXCEPT !.from = from.val, !.to = to.val])
       ELSE Outcome("none", c)

(* RewriteTags, of a call c.                                               *)
Rewrite(c) ==
    /\ call' = c
    /\ CASE c.method = "eth_blockNumber" -> Outcome("response", c)
         [] c.method = "eth_chainId" -> Outcome("none", c)
         [] c.method = "eth_getLogs" -> RewriteRange(c)
         [] OTHER -> RewriteParam(c)
    /\ UNCHANGED rctx

-----------------------------------------------------------------------------
Forwarded == result \in {"none", "request"}

(* The block a value stands for in the consensus state; hashes and pending *)
(* blocks stand for themselves.                                            *)
Denotes(v) ==
    CASE v.kind \in Tags -> V("number", rctx[v.kind], FALSE)
      [] v.kind = "absent" -> V("number", rctx.latest, FALSE)
      [] OTHER -> V(v.kind, v.n, FALSE)

(* Rewriting never changes which block is meant: what the backend gets     *)
(* denotes the block the client asked for in the consensus state.          *)
SameBlockIsMeant ==
    Forwarded =>
        /\ call.method \in DOMAIN Methods \ {"eth_getLogs"} =>
              Denotes(params.block) = Denotes(call.block)
        /\ call.method = "eth_getLogs" =>
              Denotes(params.from) = Denotes(call.from) /\ Denotes(params.to) = Denotes(call.to)

(* A backend is never left to resolve latest, safe or finalized by itself, *)
(* nor asked for a block past the consensus: whichever member serves the   *)
(* call, it knows the block.  Null and the empty string are passed on.     *)
Resolved(v) ==
    /\ v.kind \notin Tags \cup {"absent"}
    /\ v.kind = "number" => v.n <= rctx.latest \/ v.n \in {rctx.safe, rctx.finalized}
BackendResolvesNothing ==
    Forwarded =>
        /\ (call.method \in {"eth_call", "eth_getStorageAt", "eth_getBlockByNumber"}
              /\ call.before = Methods[call.method].pos) => Resolved(params.block)
        /\ (call.method = "eth_getLogs" /\ (call.from # Absent \/ call.to # Absent)) =>
              Resolved(params.from) /\ Resolved(params.to)

(* A range that is forwarded is in order and at most maxBlockRange long.   *)
RangeWithinLimit ==
    Forwarded /\ call.method = "eth_getLogs" /\ rctx.maxBlockRange > 0
        /\ (call.from # Absent \/ call.to # Absent) =>
            Number(params.to) \in Number(params.from)..(Number(params.from) + rctx.maxBlockRange)
=============================================================================

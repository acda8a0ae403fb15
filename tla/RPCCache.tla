------------------------------- MODULE RPCCache -------------------------------
(***************************************************************************)
(* The cache of answers (cache.go, methods.go): which calls it answers,    *)
(* which answers it keeps, and under which key.                            *)
(*                                                                         *)
(* The content of an answer is what these decisions tell apart: null (a    *)
(* block the backend does not have), empty (a list without receipts),      *)
(* final (what every backend that has the block says for good), the head   *)
(* an answer about a tag depends on, wrapped (receipts inside a            *)
(* ConsensusGetReceiptsResult) or plain.                                   *)
(*                                                                         *)
(* The layers (memory with eviction, Redis with a time to live and errors, *)
(* one as the fallback of the other, compression) make one store that may  *)
(* lose anything and return any answer it was given under a key.           *)
(***************************************************************************)
CONSTANT Headers        \* values of the headers that are forwarded

VARIABLES
    head,       \* old or new: the chain goes on
    cache       \* the answers stored, each with its key

cacheVars == <<head, cache>>

(* Calls with a handler: a method of staticHandler whose parameter is a    *)
(* block hash, and debug_getRawReceipts with a hash or anything else.      *)
Handled == {"byHash", "rawHash", "rawTag"}

(* What a backend may answer; receipts stands for consensus_getReceipts,   *)
(* which a second attempt does not wrap.                                   *)
Contents(kind) ==
    CASE kind = "byHash"   -> {"null", "final"}
      [] kind = "rawHash"  -> {"empty", "final"}
      [] kind = "rawTag"   -> {head}
      [] kind = "receipts" -> {"wrapped", "empty", "final"}
      [] OTHER             -> {"plain"}

(* The call as it is when the answer arrives: doForward has put            *)
(* debug_getRawReceipts and its parameters in the place of a call for      *)
(* consensus_getReceipts with a block hash.                                *)
Forwarded(kind) == IF kind = "receipts" THEN "rawHash" ELSE kind

(* "cache only if the request is for a block hash"                         *)
FilterGet(kind) == kind # "rawTag"

(* handleBatchRPC puts no null.                                            *)
HasResult(content) == content # "null"

(* Mutant: answers are kept whatever they hold.                            *)
FilterPutAny(kind, content) == TRUE

(* "don't cache if response contains 0 receipts", nor if it is no list.    *)
FilterPut(kind, content) == kind = "rawHash" => content = "final"

Key(kind, headers) == <<kind, headers>>

(* Get through all layers: what was ever put under the key, or nothing.    *)
Get(key) == {e \in cache : e.key = key}

(* GetRPC: what the cache may answer; it may also have nothing.            *)
GetRPC(kind, headers) ==
    IF kind \in Handled /\ FilterGet(kind) THEN Get(Key(kind, headers)) ELSE {}

(* PutRPC of the answer to a call: what is added to the store.             *)
PutRPC(kind, headers, content) ==
    IF kind \in Handled /\ FilterGet(kind) /\ HasResult(content) /\ FilterPut(kind, content)
    THEN {[key |-> Key(kind, headers), content |-> content, headers |-> headers]}
    ELSE {}

(* Another request of this instance, or of one that shares its Redis.      *)
OtherPut(kind, headers, content) ==
    /\ content \in Contents(kind)
    /\ cache' = cache \cup PutRPC(Forwarded(kind), headers, content)
    /\ UNCHANGED head

NewHead == head = "old" /\ head' = "new" /\ UNCHANGED cache
=============================================================================

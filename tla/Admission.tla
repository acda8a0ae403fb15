------------------------------ MODULE Admission ------------------------------
(***************************************************************************)
(* What a call has to pass before it is forwarded (isLimited in HandleRPC, *)
(* the first loop of handleBatchRPC, genericRateLimitSender and            *)
(* validateInteropSendRpcRequest in server.go, rateLimitInteropSender in   *)
(* interop.go): limits per client address, per sender of a transaction and *)
(* per sender of an interop transaction, and the checks between them.      *)
(*                                                                         *)
(* A limiter (RateLimiter) and the check of the access list                *)
(* (InteropStrategies) may say yes or no here; a limiter that fails says   *)
(* no.                                                                     *)
(***************************************************************************)
EXTENDS Naturals, Sequences, Functions

CONSTANTS
    OverrideLims,       \* methods with a limit of their own
    HighPrioLims,       \* methods with one for high priority signers
    GlobalMethods,      \* methods whose limits hold for exempt clients too
    SenderLim,          \* the limit per sender is enabled
    InteropSenderLim    \* and the one for interop transactions

VARIABLES
    client,     \* exempt: by origin or user agent; highPrio: by its signature
    charged     \* the limiters each call took from, in order

Limiters == {"main", "override", "highPrio", "sender", "interopSender"}
Clients  == [exempt : BOOLEAN, highPrio : BOOLEAN]

(* Transactions: a good one, one that cannot be decoded, one for a chain   *)
(* that is not allowed or without a sender, and one with an interop access *)
(* list.                                                                   *)
TxKinds == {"tx", "badtx", "foreign", "interop"}
Method(kind) == IF kind \in TxKinds THEN "send" ELSE kind

(* isLimited: the limiter it takes from; handleBatchRPC asks for a method  *)
(* only if overrideLims has it.                                            *)
Limited(method) ==
    IF client.exempt /\ method \notin GlobalMethods THEN << >>
    ELSE IF method = "" THEN <<"main">>
    ELSE IF ~client.highPrio THEN <<"override">>
    ELSE IF method \in HighPrioLims THEN <<"highPrio">> ELSE << >>

(* Mutant: the limit is taken before the chain is looked at.               *)
TakeBeforeChain(lim) == <<lim, "chain">>

(* "reject before rate limiting to avoid replay attacks"                   *)
GenericRateLimitSender(lim) == <<"chain", lim>>

ValidateInteropSendRpcRequest ==
    (IF InteropSenderLim THEN GenericRateLimitSender("interopSender") ELSE << >>)
        \o <<"size", "accessList">>

SendChecks(kind) ==
    <<"decode">>
        \o (IF SenderLim THEN GenericRateLimitSender("sender") ELSE << >>)
        \o (IF kind = "interop" THEN ValidateInteropSendRpcRequest ELSE << >>)

(* The checks of a call to a listed method, in order.                      *)
Checks(kind) ==
    Limited("")
        \o (IF Method(kind) \in OverrideLims THEN Limited(Method(kind)) ELSE << >>)
        \o (IF kind \in TxKinds THEN SendChecks(kind) ELSE << >>)

CanPass(kind, check) ==
    /\ check = "decode" => kind # "badtx"
    /\ check = "chain"  => kind # "foreign"
CanFail(kind, check) ==
    /\ check = "decode" => kind = "badtx"
    /\ check = "chain"  => kind = "foreign"

(* A call passes this many checks and fails the next one, if there is one. *)
Passes(kind, n) ==
    LET checks == Checks(kind)
    IN  /\ \A k \in 1..n : CanPass(kind, checks[k])
        /\ n < Len(checks) => CanFail(kind, checks[n + 1])

(* What a loop that appends the members of S keeps of a sequence.           *)
Filter(seq, S) ==
    LET keep[n \in 0..Len(seq)] ==
            IF n = 0 THEN << >>
            ELSE IF seq[n] \in S THEN Append(keep[n - 1], seq[n]) ELSE keep[n - 1]
    IN  keep[Len(seq)]

(* The limiters it has then taken from.                                    *)
Taken(kind, n) ==
    LET checks == Checks(kind)
        asked  == IF n < Len(checks) THEN n + 1 ELSE n
    IN  Filter(SubSeq(checks, 1, asked), Limiters)
=============================================================================

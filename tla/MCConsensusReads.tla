--------------------------- MODULE MCConsensusReads ---------------------------
(* An instance of ConsensusReads for TLC.                                  *)
EXTENDS ConsensusReads

(* Once the request has read the numbers, nothing the poller does concerns *)
(* it; once it is rewritten, only the call and its context matter.         *)
ReadsView ==
    CASE pc = "sent" -> <<rewriteVars>>
      [] pc = "rewrite" -> <<requestVars>>
      [] OTHER -> <<requestVars, viewVars, attached, count, stamp>>
=============================================================================

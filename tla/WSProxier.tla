------------------------------ MODULE WSProxier ------------------------------
(***************************************************************************)
(* A WebSocket session (HandleWS in server.go, WSProxier in backend.go):   *)
(* the backends of the group are dialed in turn, then two pumps copy       *)
(* messages, one from the client and one from the backend, until a write   *)
(* fails and Proxy closes both connections.  Lifecycle runs it in the      *)
(* process that serves it.                                                 *)
(*                                                                         *)
(* A connection is gorilla/websocket's: ReadMessage yields data messages   *)
(* only, or an error with the message type -1; nothing can be written      *)
(* after a close message, and a message of type -1 is refused.  Writing to *)
(* a peer that is gone may still succeed, until the deadline of the write. *)
(***************************************************************************)
EXTENDS Naturals, Sequences

CONSTANT
    Backends        \* how many backends the group has

ASSUME WSAssumption == Backends \in Nat

Pumps == {"client", "backend"}
Other(p) == IF p = "client" THEN "backend" ELSE "client"

(* What the client sends: a call of a whitelisted method, or one answered  *)
(* here (eth_accounts, or what is refused).  What a backend sends:         *)
(* JSON-RPC or not.                                                        *)
Kinds(p) == IF p = "client" THEN {"call", "local"} ELSE {"response", "garbage"}

VARIABLES
    phase,      \* none, handshake, dial, proxy, ended: HandleWS and Proxy
    dialed,     \* backends tried, until one answers
    pc,         \* [Pumps -> idle, read, write, closeMsg, noFrame, end]
    msg,        \* [Pumps -> the message it holds]
    alive,      \* [Pumps -> the peer is still there]
    open,       \* [Pumps -> proxyd has not closed its connection]
    closeSent,  \* [Pumps -> a close message was written to it]
    sent,       \* [Pumps -> messages the peer sent, in order]
    taken,      \* [Pumps -> how many of them ReadMessage has returned]
    written,    \* [Pumps -> messages proxyd wrote to it, with their origin]
    errC,       \* errors in the channel of Proxy
    conns       \* activeBackendWsConnsGauge

wsVars == <<phase, dialed, pc, msg, alive, open, closeSent, sent, taken,
            written, errC, conns>>
session == <<phase, dialed, conns>>
peers == <<alive, sent>>

NoMsg == [from |-> "none", kind |-> "none", n |-> 0]

WSInit ==
    /\ phase = "none" /\ dialed = 0 /\ conns = 0 /\ errC = 0
    /\ pc = [p \in Pumps |-> "idle"] /\ msg = [p \in Pumps |-> NoMsg]
    /\ alive = [p \in Pumps |-> TRUE] /\ open = [p \in Pumps |-> FALSE]
    /\ closeSent = [p \in Pumps |-> FALSE]
    /\ sent = [p \in Pumps |-> << >>] /\ taken = [p \in Pumps |-> 0]
    /\ written = [p \in Pumps |-> << >>]

(* The process is gone, and the session with it.                           *)
WSGone ==
    /\ phase' = "none" /\ dialed' = 0 /\ conns' = 0 /\ errC' = 0
    /\ pc' = [p \in Pumps |-> "idle"] /\ msg' = [p \in Pumps |-> NoMsg]
    /\ alive' = [p \in Pumps |-> TRUE] /\ open' = [p \in Pumps |-> FALSE]
    /\ closeSent' = [p \in Pumps |-> FALSE]
    /\ sent' = [p \in Pumps |-> << >>] /\ taken' = [p \in Pumps |-> 0]
    /\ written' = [p \in Pumps |-> << >>]

Goto(p, l) == pc' = [pc EXCEPT ![p] = l]

-----------------------------------------------------------------------------
(* A request of the WS server, before its connection is taken over.        *)
Connect ==
    /\ phase = "none" /\ phase' = "handshake"
    /\ UNCHANGED <<dialed, conns, pc, msg, peers, open, closeSent, taken, written, errC>>

(* HandleWS: no context for this path or secret, or the upgrade fails.     *)
Refuse ==
    /\ phase = "handshake" /\ phase' = "ended"
    /\ UNCHANGED <<dialed, conns, pc, msg, peers, open, closeSent, taken, written, errC>>

Upgrade ==
    /\ phase = "handshake" /\ phase' = "dial"
    /\ open' = [open EXCEPT !["client"] = TRUE]
    /\ UNCHANGED <<dialed, conns, pc, msg, peers, closeSent, taken, written, errC>>

BackendsLeft(n) == n < Backends

(* BackendGroup.ProxyWS: any error of the dial means the next backend.     *)
DialFails ==
    /\ phase = "dial" /\ BackendsLeft(dialed)
    /\ dialed' = dialed + 1
    /\ UNCHANGED <<phase, conns, pc, msg, peers, open, closeSent, taken, written, errC>>

Dial ==
    /\ phase = "dial" /\ BackendsLeft(dialed)
    /\ phase' = "proxy" /\ dialed' = 0 /\ conns' = conns + 1
    /\ open' = [open EXCEPT !["backend"] = TRUE]
    /\ pc' = [p \in Pumps |-> "read"]
    /\ UNCHANGED <<msg, peers, closeSent, taken, written, errC>>

(* ErrNoBackends: HandleWS closes the client's connection.                 *)
NoBackends ==
    /\ phase = "dial" /\ dialed = Backends
    /\ phase' = "ended"
    /\ open' = [open EXCEPT !["client"] = FALSE]
    /\ UNCHANGED <<dialed, conns, pc, msg, peers, closeSent, taken, written, errC>>

-----------------------------------------------------------------------------
(* The peers: they send, at most max messages, and they go away.          *)
PeerSends(p, kind, max) ==
    /\ phase = "proxy" /\ alive[p] /\ Len(sent[p]) < max
    /\ sent' = [sent EXCEPT ![p] =
                  Append(@, [from |-> p, kind |-> kind, n |-> Len(@) + 1])]
    /\ UNCHANGED <<session, pc, msg, alive, open, closeSent, taken, written, errC>>

PeerLeaves(p) ==
    /\ phase = "proxy" /\ alive[p]
    /\ alive' = [alive EXCEPT ![p] = FALSE]
    /\ UNCHANGED <<session, pc, msg, sent, open, closeSent, taken, written, errC>>

-----------------------------------------------------------------------------
ReadMessage(p) ==
    /\ pc[p] = "read" /\ open[p] /\ taken[p] < Len(sent[p])
    /\ msg' = [msg EXCEPT ![p] = sent[p][taken[p] + 1]]
    /\ taken' = [taken EXCEPT ![p] = @ + 1]
    /\ Goto(p, "write")
    /\ UNCHANGED <<session, peers, open, closeSent, written, errC>>

(* The read fails: the peer is gone and nothing it sent is left, or the    *)
(* connection is closed.  The pump does not return.                        *)
ReadFails(p) ==
    /\ pc[p] = "read"
    /\ ~open[p] \/ (~alive[p] /\ taken[p] = Len(sent[p]))
    /\ Goto(p, "closeMsg")
    /\ UNCHANGED <<session, msg, peers, open, closeSent, taken, written, errC>>

(* prepareClientMsg: what is not forwarded is answered here.  A response   *)
(* of the backend that does not parse is replaced by an error.             *)
Target(p, m) == IF m.kind = "local" THEN p ELSE Other(p)

Reply(p, m) ==
    CASE m.kind = "call" -> m
      [] m.kind = "local" -> [m EXCEPT !.from = "proxyd"]
      [] m.kind = "response" -> m
      [] m.kind = "garbage" -> [m EXCEPT !.kind = "error"]

(* Mutant: what does not parse is dropped.                                 *)
WrittenIfParsed(p, q) ==
    IF msg[p].kind = "garbage" THEN written[q] ELSE Append(written[q], Reply(p, msg[p]))

Written(p, q) == Append(written[q], Reply(p, msg[p]))

Writable(q) == open[q] /\ ~closeSent[q]

Write(p) ==
    LET q == Target(p, msg[p]) IN
    /\ pc[p] = "write" /\ Writable(q)
    /\ written' = [written EXCEPT ![q] = Written(p, q)]
    /\ msg' = [msg EXCEPT ![p] = NoMsg]
    /\ Goto(p, "read")
    /\ UNCHANGED <<session, peers, open, closeSent, taken, errC>>

(* Mutant: a pump that returns without reporting its error.                *)
EndsSilently(p) == Goto(p, "end") /\ UNCHANGED errC

(* errC <- err, with room for both pumps; return.                          *)
Ends(p) == Goto(p, "end") /\ errC' = errC + 1

WriteFails(p) ==
    LET q == Target(p, msg[p]) IN
    /\ pc[p] = "write" /\ (~Writable(q) \/ ~alive[q])
    /\ Ends(p)
    /\ msg' = [msg EXCEPT ![p] = NoMsg]
    /\ UNCHANGED <<session, peers, open, closeSent, taken, written>>

(* The reason of the failed read goes to the other side as a close         *)
(* message; if that succeeds the pump writes its empty message next.       *)
WriteClose(p) ==
    /\ pc[p] = "closeMsg" /\ Writable(Other(p))
    /\ closeSent' = [closeSent EXCEPT ![Other(p)] = TRUE]
    /\ Goto(p, "noFrame")
    /\ UNCHANGED <<session, msg, peers, open, taken, written, errC>>

WriteCloseFails(p) ==
    /\ pc[p] = "closeMsg" /\ (~Writable(Other(p)) \/ ~alive[Other(p)])
    /\ Ends(p)
    /\ UNCHANGED <<session, msg, peers, open, closeSent, taken, written>>

(* WriteMessage refuses a message of type -1.                              *)
WriteNoFrame(p) ==
    /\ pc[p] = "noFrame"
    /\ Ends(p)
    /\ UNCHANGED <<session, msg, peers, open, closeSent, taken, written>>

NoConns == [p \in Pumps |-> FALSE]

(* Proxy receives the first error and closes both connections.             *)
ProxyReturns ==
    /\ phase = "proxy" /\ errC > 0
    /\ errC' = errC - 1
    /\ phase' = "ended" /\ conns' = conns - 1
    /\ open' = NoConns
    /\ UNCHANGED <<dialed, pc, msg, peers, closeSent, taken, written>>

Pump(p) ==
    \/ ReadMessage(p) \/ ReadFails(p)
    \/ Write(p) \/ WriteFails(p)
    \/ WriteClose(p) \/ WriteCloseFails(p) \/ WriteNoFrame(p)

Handle == Refuse \/ Upgrade \/ DialFails \/ Dial \/ NoBackends

-----------------------------------------------------------------------------
Received(p) == written[Other(p)]
Passed(p) == {i \in DOMAIN Received(p) : Received(p)[i].from = p}
Passes(m) == m.kind # "local"

(* The messages of one side that pass through arrive at the other side in  *)
(* order, none twice and none left out, though both pumps write to the     *)
(* client: each is the reply to one that was sent, and those that arrived  *)
(* before it are all that pass of the ones sent before it, and no others.  *)
StreamsInOrder ==
    \A p \in Pumps : \A i \in Passed(p) :
        LET n == Received(p)[i].n
            earlier == {Received(p)[j].n : j \in {j \in Passed(p) : j < i}}
        IN /\ n \in DOMAIN sent[p] /\ Received(p)[i] = Reply(p, sent[p][n])
           /\ earlier = {k \in 1..(n - 1) : Passes(sent[p][k])}
=============================================================================

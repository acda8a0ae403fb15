------------------------------ MODULE Lifecycle ------------------------------
(***************************************************************************)
(* The process (main, Start in proxyd.go, the listeners and Shutdown of    *)
(* server.go) around a WebSocket session and the RPC requests in flight.   *)
(*                                                                         *)
(* Start leaves one goroutine per port behind, each of which makes its     *)
(* http.Server under srvMu and listens; it then gives every                *)
(* consensus-aware group its poller, and waits 10ms.  On a signal Shutdown *)
(* holds srvMu, shuts down the servers it finds and cancels the pollers;   *)
(* the process exits when it returns.                                      *)
(*                                                                         *)
(* http.Server is external: its Shutdown closes the listener and waits for *)
(* the connections with a request in progress, which a connection taken    *)
(* over by an upgrade no longer is; a server shut down before it listens   *)
(* never will.                                                             *)
(***************************************************************************)
EXTENDS WSProxier

CONSTANTS
    Deployments,    \* which of the two servers have a port
    MaxMessages,    \* [Deployments -> bound on what each peer sends]
    MaxRequests     \* bound on the RPC requests in flight

ASSUME LifecycleAssumption ==
    /\ Deployments \subseteq SUBSET {"rpc", "ws"}
    /\ MaxMessages \in [Deployments -> Nat]
    /\ MaxRequests \in Nat

Servers == {"rpc", "ws"}

VARIABLES
    ports,      \* the servers configured
    main,       \* attach, timer, wait, lock, rpc, ws, groups, return, exited, failed
    srvMu,      \* free, or who holds it
    srv,        \* [Servers -> off, spawned, made, listening, closed]
    requests,   \* RPC requests in flight
    poller,     \* none, running, cancelled
    missed      \* servers Shutdown found nil, whose goroutine had not run yet

procVars == <<ports, main, srvMu, srv, requests, poller, missed>>
vars == <<wsVars, procVars>>

Running == main \notin {"exited", "failed"}

Init ==
    /\ WSInit
    /\ ports \in Deployments
    /\ main = "attach" /\ srvMu = "free"
    /\ srv = [s \in Servers |-> IF s \in ports THEN "spawned" ELSE "off"]
    /\ requests = 0 /\ poller = "none" /\ missed = {}

-----------------------------------------------------------------------------
(* Mutant: the lock is kept, by a defer, for as long as the server runs.   *)
UnlockDeferred(s) == srvMu' = s

UnlockServer(s) == srvMu' = "free"

(* RPCListenAndServe, WSListenAndServe up to the unlock.                   *)
Make(s) ==
    /\ srv[s] = "spawned" /\ srvMu = "free"
    /\ srv' = [srv EXCEPT ![s] = "made"]
    /\ UnlockServer(s)
    /\ UNCHANGED <<wsVars, ports, main, requests, poller, missed>>

Listen(s) ==
    /\ srv[s] = "made"
    /\ srv' = [srv EXCEPT ![s] = "listening"]
    /\ UNCHANGED <<wsVars, ports, main, srvMu, requests, poller, missed>>

(* The end of the process, whose connections and locks go with it.         *)
EndProcess(how) ==
    /\ main' = how
    /\ srvMu' = "free" /\ srv' = [s \in Servers |-> "off"]
    /\ requests' = 0 /\ poller' = "none" /\ missed' = {}
    /\ WSGone
    /\ UNCHANGED ports

(* The port cannot be had: log.Crit ends the process.                      *)
ListenFails(s) == srv[s] = "made" /\ EndProcess("failed")

-----------------------------------------------------------------------------
(* Start, from the goroutines on: bg.Consensus = cp.                       *)
Attach ==
    /\ main = "attach" /\ main' = "timer"
    /\ poller' = "running"
    /\ UNCHANGED <<wsVars, ports, srvMu, srv, requests, missed>>

(* The Redis of an HA group does not answer, or the configuration is       *)
(* refused: Start returns an error, or log.Crit ends the process at once.  *)
AttachFails == main = "attach" /\ EndProcess("failed")

TimerFires ==
    /\ main = "timer" /\ main' = "wait"
    /\ UNCHANGED <<wsVars, ports, srvMu, srv, requests, poller, missed>>

Signal ==
    /\ main = "wait" /\ main' = "lock"
    /\ UNCHANGED <<wsVars, ports, srvMu, srv, requests, poller, missed>>

Lock ==
    /\ main = "lock" /\ srvMu = "free"
    /\ main' = "rpc" /\ srvMu' = "shutdown"
    /\ UNCHANGED <<wsVars, ports, srv, requests, poller, missed>>

(* What http.Server.Shutdown closes first.                                 *)
CloseListener(s) ==
    /\ main = s /\ srv[s] \in {"made", "listening"}
    /\ srv' = [srv EXCEPT ![s] = "closed"]
    /\ UNCHANGED <<wsVars, ports, main, srvMu, requests, poller, missed>>

(* Mutant: Close, which waits for nothing.                                 *)
IdleAlways(s) == TRUE

Idle(s) == IF s = "rpc" THEN requests = 0 ELSE phase # "handshake"

AfterServer(s) == IF s = "rpc" THEN "ws" ELSE "groups"

ShutdownReturns(s) ==
    /\ main = s /\ srv[s] = "closed" /\ Idle(s)
    /\ main' = AfterServer(s)
    /\ UNCHANGED <<wsVars, ports, srvMu, srv, requests, poller, missed>>

(* s.rpcServer, s.wsServer is nil: no port, or the goroutine is yet to run. *)
NoServer(s) ==
    /\ main = s /\ srv[s] \in {"off", "spawned"}
    /\ main' = AfterServer(s)
    /\ missed' = IF srv[s] = "spawned" THEN missed \cup {s} ELSE missed
    /\ UNCHANGED <<wsVars, ports, srvMu, srv, requests, poller>>

(* bg.Shutdown of every group, and the deferred unlock.                    *)
ShutdownGroups ==
    /\ main = "groups" /\ main' = "return"
    /\ poller' = "cancelled" /\ srvMu' = "free"
    /\ UNCHANGED <<wsVars, ports, srv, requests, missed>>

Exit == main = "return" /\ EndProcess("exited")

Main ==
    \/ Attach \/ AttachFails \/ TimerFires \/ Lock
    \/ \E s \in Servers : CloseListener(s) \/ ShutdownReturns(s) \/ NoServer(s)
    \/ ShutdownGroups \/ Exit

-----------------------------------------------------------------------------
Arrives ==
    /\ srv["rpc"] = "listening" /\ requests < MaxRequests
    /\ requests' = requests + 1
    /\ UNCHANGED <<wsVars, ports, main, srvMu, srv, poller, missed>>

Answered ==
    /\ requests > 0
    /\ requests' = requests - 1
    /\ UNCHANGED <<wsVars, ports, main, srvMu, srv, poller, missed>>

Accept == srv["ws"] = "listening" /\ Connect /\ UNCHANGED procVars

Session ==
    /\ \/ Handle \/ ProxyReturns
       \/ \E p \in Pumps :
            \/ Pump(p) \/ PeerLeaves(p)
            \/ \E kind \in Kinds(p) : PeerSends(p, kind, MaxMessages[ports])
    /\ UNCHANGED procVars

Next ==
    /\ Running
    /\ \/ \E s \in Servers : Make(s) \/ Listen(s) \/ ListenFails(s)
       \/ Main \/ Signal
       \/ Arrives \/ Answered \/ Accept \/ Session

Spec == Init /\ [][Next]_vars

(* Goroutines run, timers fire, a request ends by the server's timeout and *)
(* a write by its deadline.  Nobody need send a request, a message or a    *)
(* signal.                                                                 *)
FairSpec ==
    /\ Spec
    /\ WF_vars(Running /\ Main) /\ WF_vars(Running /\ Answered)
    /\ WF_vars(Running /\ \E s \in Servers : Make(s) \/ Listen(s) \/ ListenFails(s))
    /\ WF_vars(Running /\ (Handle \/ ProxyReturns) /\ UNCHANGED procVars)
    /\ \A p \in Pumps : WF_vars(Running /\ Pump(p) /\ UNCHANGED procVars)

-----------------------------------------------------------------------------
(* No request is in flight once the pollers whose consensus it relies on   *)
(* are cancelled, or when the process exits on a signal: Shutdown waits    *)
(* for the requests of the RPC server, and for a WebSocket client that is  *)
(* not upgraded yet, before it goes on.  The exception is a server that    *)
(* Shutdown did not find because its goroutine was slower than the 10ms    *)
(* timer: it serves with cancelled pollers until the exit cuts it off.     *)
DrainedBeforePollersStop ==
    poller = "cancelled" =>
        /\ requests > 0 => "rpc" \in missed
        /\ phase = "handshake" => "ws" \in missed

(* A signal ends the process: Shutdown is not kept waiting by the lock the *)
(* listeners take, nor by a WebSocket session whose peers stay.            *)
ShutdownEnds == main = "lock" ~> ~Running

(* Once a peer is gone the session comes to an end: both pumps return,     *)
(* both connections are closed and the gauge no longer counts them, unless *)
(* the process ends first.                                                 *)
SessionEnds ==
    (phase = "proxy" /\ \E p \in Pumps : ~alive[p])
        ~> \/ ~Running
           \/ phase = "ended" /\ conns = 0 /\ \A p \in Pumps : pc[p] = "end" /\ ~open[p]
=============================================================================

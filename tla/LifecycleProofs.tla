--------------------------- MODULE LifecycleProofs ---------------------------
(* Theorems about Lifecycle, for any number of backends, messages and      *)
(* requests and any choice of ports.                                       *)
EXTENDS Lifecycle, TLAPS

(* A server that Shutdown has dealt with, if it found it, has no request   *)
(* left and gets no other: it is closed, or it never had a port.           *)
Drained(s) ==
    srv[s] \in {"off", "closed"} /\ (IF s = "rpc" THEN requests = 0 ELSE phase # "handshake")

(* Requests come from a server that listens, and the pollers are cancelled *)
(* after both servers were dealt with.                                     *)
DrainInv ==
    /\ requests \in Nat
    /\ srv \in [Servers -> {"off", "spawned", "made", "listening", "closed"}]
    /\ srv["rpc"] \in {"off", "spawned", "made"} => requests = 0
    /\ srv["ws"] \in {"off", "spawned", "made"} => phase # "handshake"
    /\ main \in {"ws", "groups", "return"} => "rpc" \in missed \/ Drained("rpc")
    /\ main \in {"groups", "return"} => "ws" \in missed \/ Drained("ws")
    /\ poller = "cancelled" => main = "return"

(* A step of the session begins no handshake.                              *)
LEMMA SessionIsUpgraded == Session /\ phase # "handshake" => phase' # "handshake"
  BY Zenon DEF Session, Handle, Refuse, Upgrade, DialFails, Dial, NoBackends, ProxyReturns, Pump,
     PeerLeaves, PeerSends, ReadMessage, ReadFails, Write, WriteFails, WriteClose,
     WriteCloseFails, WriteNoFrame, session

LEMMA DrainInductive == DrainInv /\ [Next]_vars => DrainInv'
<1> SUFFICES ASSUME DrainInv, [Next]_vars PROVE DrainInv'
  OBVIOUS
<1> USE DEF DrainInv, Drained, Servers
<1>1. ASSUME NEW s \in Servers, Make(s) PROVE DrainInv'
  BY Zenon, <1>1 DEF Make, wsVars
<1>2. ASSUME NEW s \in Servers, Listen(s) PROVE DrainInv'
  BY Zenon, <1>2 DEF Listen, wsVars
<1>3. ASSUME NEW how \in {"failed", "exited"}, EndProcess(how) PROVE DrainInv'
  BY Zenon, <1>3 DEF EndProcess, WSGone
<1>4. CASE Attach \/ TimerFires \/ Signal \/ Lock
  BY Zenon, <1>4 DEF Attach, TimerFires, Signal, Lock, wsVars
<1>5. ASSUME NEW s \in Servers, CloseListener(s) PROVE DrainInv'
  BY Zenon, <1>5 DEF CloseListener, wsVars
<1>6. ASSUME NEW s \in Servers, ShutdownReturns(s) PROVE DrainInv'
  BY Zenon, <1>6 DEF ShutdownReturns, Idle, AfterServer, wsVars
<1>7. ASSUME NEW s \in Servers, NoServer(s) PROVE DrainInv'
  BY Zenon, <1>7 DEF NoServer, AfterServer, wsVars
<1>8. CASE ShutdownGroups
  BY Zenon, <1>8 DEF ShutdownGroups, wsVars
<1>9. CASE Arrives \/ Answered
  BY <1>9 DEF Arrives, Answered, wsVars
<1>10. CASE Accept
  BY Zenon, <1>10 DEF Accept, Connect, procVars
<1>11. CASE Session
  BY Zenon, <1>11, SessionIsUpgraded DEF Session, procVars
<1>12. CASE UNCHANGED vars
  BY Zenon, <1>12 DEF vars, wsVars, procVars
<1> QED
  BY Zenon, <1>1, <1>2, <1>3, <1>4, <1>5, <1>6, <1>7, <1>8, <1>9, <1>10, <1>11, <1>12
  DEF Next, Main, ListenFails, AttachFails, Exit

(* Shutdown cancels the pollers only after the requests that rely on them, *)
(* except those of a server whose goroutine came too late for it.          *)
THEOREM ShutdownDrains == Spec => []DrainedBeforePollersStop
<1>1. Init => DrainInv
  BY DEF Init, WSInit, DrainInv, Servers
<1>2. DrainInv => DrainedBeforePollersStop
  BY DEF DrainInv, DrainedBeforePollersStop, Drained
<1> QED
  BY <1>1, <1>2, DrainInductive, PTL DEF Spec

-----------------------------------------------------------------------------
(* The session: what a pump has passed on and what it still holds.         *)
Messages ==
    [from : Pumps \cup {"proxyd"}, n : Nat,
     kind : {"call", "local", "response", "garbage", "error"}]

SessionType ==
    /\ pc \in [Pumps -> {"idle", "read", "write", "closeMsg", "noFrame", "end"}]
    /\ msg \in [Pumps -> Messages \cup {NoMsg}]
    /\ sent \in [Pumps -> Seq(Messages)] /\ written \in [Pumps -> Seq(Messages)]
    /\ taken \in [Pumps -> Nat]

SentInOrder(p) ==
    /\ taken[p] <= Len(sent[p])
    /\ \A k \in 1..Len(sent[p]) : \E kind \in Kinds(p) :
          sent[p][k] = [from |-> p, kind |-> kind, n |-> k]

(* The messages of p that were dealt with: all it read but the one it holds. *)
Done(p) == IF pc[p] = "write" THEN taken[p] - 1 ELSE taken[p]

Holds(p) ==
    /\ pc[p] = "write" => taken[p] > 0 /\ msg[p] = sent[p][taken[p]]
    /\ pc[p] = "idle" => taken[p] = 0

Before(p, i, k) == \E j \in Passed(p) : j < i /\ Received(p)[j].n = k

PassedInOrder(p) ==
    \A i \in Passed(p) :
        /\ Received(p)[i].n \in 1..Done(p)
        /\ Received(p)[i] = Reply(p, sent[p][Received(p)[i].n])
        /\ Passes(sent[p][Received(p)[i].n])
        /\ \A j \in Passed(p) : j < i => Received(p)[j].n < Received(p)[i].n
        /\ \A k \in 1..(Received(p)[i].n - 1) : Passes(sent[p][k]) => Before(p, i, k)

(* A pump that still runs left nothing out.                                *)
NoneLeftOut(p) ==
    pc[p] \in {"idle", "read", "write"} =>
        \A k \in 1..Done(p) : Passes(sent[p][k]) => \E j \in Passed(p) : Received(p)[j].n = k

Stream(p) == SentInOrder(p) /\ Holds(p) /\ PassedInOrder(p) /\ NoneLeftOut(p)

StreamInv ==
    /\ SessionType
    /\ phase \in {"none", "handshake", "dial"} => pc = [p \in Pumps |-> "idle"]
    /\ \A p \in Pumps : Stream(p)

LEMMA OtherPump ==
    ASSUME NEW p \in Pumps
    PROVE  Other(p) \in Pumps /\ Other(p) # p /\ Other(Other(p)) = p
           /\ \A q \in Pumps : q = p \/ q = Other(p)
  BY DEF Other, Pumps

LEMMA ReplyIs ==
    ASSUME NEW p \in Pumps, NEW kind \in Kinds(p), NEW k \in Nat
    PROVE  LET m == [from |-> p, kind |-> kind, n |-> k]
           IN  /\ m \in Messages /\ Reply(p, m) \in Messages /\ Reply(p, m).n = k
               /\ Reply(p, m).from = IF Passes(m) THEN p ELSE "proxyd"
               /\ Target(p, m) = IF Passes(m) THEN Other(p) ELSE p
  BY Zenon DEF Messages, Reply, Passes, Target, Kinds, Pumps

(* A step that neither sends nor writes for p, and that does not put its   *)
(* pump back to work.                                                      *)
LEMMA Untouched ==
    ASSUME NEW p \in Pumps, SessionType, Stream(p), 
           sent'[p] = sent[p], taken'[p] = taken[p], Received(p)' = Received(p),
           \/ pc'[p] = pc[p] /\ msg'[p] = msg[p]
           \/ pc'[p] \in {"closeMsg", "noFrame", "end"}
           \/ pc[p] = "idle" /\ pc'[p] = "read"
    PROVE  Stream(p)'
<1>1. Passed(p)' = Passed(p)
  BY Zenon DEF Passed
<1>2. Done(p) \in Nat /\ Done(p)' \in Nat /\ Done(p) <= Done(p)'
  BY DEF SessionType, Stream, Holds, Done
<1>3. pc'[p] \in {"idle", "read", "write"} =>
          Done(p)' = Done(p) /\ pc[p] \in {"idle", "read", "write"}
  BY Zenon DEF Done
<1>4. SentInOrder(p)' /\ Holds(p)'
  BY Zenon DEF Stream, SentInOrder, Holds
<1>5. \A i \in Passed(p), k \in Nat : Before(p, i, k)' <=> Before(p, i, k)
  BY Zenon, <1>1 DEF Before
<1>6. PassedInOrder(p)'
  <2> SUFFICES ASSUME NEW i \in Passed(p)
               PROVE  /\ Received(p)[i].n \in 1..Done(p)'
                      /\ Received(p)[i] = Reply(p, sent[p][Received(p)[i].n])
                      /\ Passes(sent[p][Received(p)[i].n])
                      /\ \A j \in Passed(p) : j < i => Received(p)[j].n < Received(p)[i].n
                      /\ \A k \in 1..(Received(p)[i].n - 1) :
                            Passes(sent[p][k]) => Before(p, i, k)'
    BY Zenon, <1>1 DEF PassedInOrder
  <2> QED
    BY <1>2, <1>5 DEF Stream, PassedInOrder
<1>7. NoneLeftOut(p)'
  BY Zenon, <1>1, <1>3 DEF Stream, NoneLeftOut
<1> QED
  BY Zenon, <1>4, <1>6, <1>7 DEF Stream

LEMMA SendKeepsOrder ==
    ASSUME NEW p \in Pumps, SessionType, Stream(p), NEW kind \in Kinds(p),
           sent'[p] = Append(sent[p], [from |-> p, kind |-> kind, n |-> Len(sent[p]) + 1]),
           UNCHANGED <<taken, pc, msg, written>>
    PROVE  Stream(p)' /\ sent'[p] \in Seq(Messages)
<1>1. Passed(p)' = Passed(p) /\ Received(p)' = Received(p) /\ Done(p)' = Done(p)
  BY Zenon DEF Passed, Received, Done
<1>2. /\ sent[p] \in Seq(Messages) /\ Len(sent[p]) \in Nat
      /\ [from |-> p, kind |-> kind, n |-> Len(sent[p]) + 1] \in Messages
  BY DEF SessionType, Messages, Kinds, Pumps
<1>3. /\ sent'[p] \in Seq(Messages) /\ Len(sent'[p]) = Len(sent[p]) + 1
      /\ \A k \in 1..Len(sent[p]) : sent'[p][k] = sent[p][k]
      /\ sent'[p][Len(sent[p]) + 1] = [from |-> p, kind |-> kind, n |-> Len(sent[p]) + 1]
  BY <1>2
<1>4. Done(p) \in 0..Len(sent[p]) /\ taken[p] \in Nat
  BY <1>2 DEF SessionType, Stream, SentInOrder, Holds, Done
<1>5. SentInOrder(p)'
  <2> SUFFICES ASSUME NEW k \in 1..(Len(sent[p]) + 1)
               PROVE  \E kd \in Kinds(p) : sent'[p][k] = [from |-> p, kind |-> kd, n |-> k]
    BY <1>2, <1>3, <1>4 DEF Stream, SentInOrder
  <2>1. CASE k \in 1..Len(sent[p])
    BY Zenon, <1>3, <2>1 DEF Stream, SentInOrder
  <2>2. CASE k = Len(sent[p]) + 1
    BY Zenon, <1>3, <2>2
  <2>3. k \in 1..Len(sent[p]) \/ k = Len(sent[p]) + 1
    BY <1>2
  <2> QED
    BY Zenon, <2>1, <2>2, <2>3
<1>6. Holds(p)'
  BY <1>2, <1>3, <1>4 DEF Stream, Holds, SentInOrder
<1>7. \A k \in 1..Done(p) : sent'[p][k] = sent[p][k]
  BY <1>2, <1>3, <1>4
<1>8. PassedInOrder(p)'
  <2> SUFFICES ASSUME NEW i \in Passed(p)
               PROVE  /\ Received(p)[i].n \in 1..Done(p)
                      /\ Received(p)[i] = Reply(p, sent'[p][Received(p)[i].n])
                      /\ Passes(sent'[p][Received(p)[i].n])
                      /\ \A j \in Passed(p) : j < i => Received(p)[j].n < Received(p)[i].n
                      /\ \A k \in 1..(Received(p)[i].n - 1) :
                            Passes(sent'[p][k]) => Before(p, i, k)
    <3>1. \A i, k : Before(p, i, k)' <=> Before(p, i, k)
      BY Zenon, <1>1 DEF Before
    <3> QED
      BY Zenon, <1>1, <3>1 DEF PassedInOrder
  <2>1. Received(p)[i].n \in 1..Done(p)
    BY Zenon DEF Stream, PassedInOrder
  <2>2. \A k \in 1..(Received(p)[i].n - 1) : sent'[p][k] = sent[p][k]
    BY <1>4, <1>7, <2>1
  <2>3. sent'[p][Received(p)[i].n] = sent[p][Received(p)[i].n]
    BY Zenon, <1>7, <2>1
  <2> QED
    BY Zenon, <2>1, <2>2, <2>3 DEF Stream, PassedInOrder
<1>9. NoneLeftOut(p)'
  BY Zenon, <1>1, <1>7 DEF Stream, NoneLeftOut
<1> QED
  BY Zenon, <1>3, <1>5, <1>6, <1>8, <1>9 DEF Stream

LEMMA ReadKeepsOrder ==
    ASSUME NEW p \in Pumps, SessionType, Stream(p), pc[p] = "read", pc'[p] = "write",
           taken[p] < Len(sent[p]), msg'[p] = sent[p][taken[p] + 1], taken'[p] = taken[p] + 1,
           UNCHANGED <<sent, written>>
    PROVE  Stream(p)'
<1>1. Passed(p)' = Passed(p) /\ Received(p)' = Received(p)
  BY Zenon DEF Passed, Received
<1>2. taken[p] \in Nat /\ Done(p) = taken[p] /\ Done(p)' = taken[p] /\ Len(sent[p]) \in Nat
  BY DEF SessionType, Done
<1>3. SentInOrder(p)' /\ Holds(p)'
  <2>1. taken[p] + 1 > 0 /\ taken[p] + 1 <= Len(sent[p])
    BY <1>2
  <2> QED
    BY Zenon, <2>1 DEF Stream, SentInOrder, Holds
<1>4. PassedInOrder(p)'
  BY <1>1, <1>2 DEF Stream, PassedInOrder, Before
<1>5. NoneLeftOut(p)'
  BY Zenon, <1>1, <1>2 DEF Stream, NoneLeftOut
<1> QED
  BY Zenon, <1>3, <1>4, <1>5 DEF Stream

(* A message of another origin is written where those of p go.             *)
LEMMA ForeignWrite ==
    ASSUME NEW p \in Pumps, SessionType, Stream(p), NEW m \in Messages, m.from # p,
           Received(p)' = Append(Received(p), m), UNCHANGED <<sent, taken>>,
           pc'[p] = pc[p], msg'[p] = msg[p]
    PROVE  Stream(p)'
<1>1. Received(p) \in Seq(Messages)
  BY Zenon, OtherPump DEF SessionType, Received
<1>2. /\ DOMAIN Received(p)' = DOMAIN Received(p) \cup {Len(Received(p)) + 1}
      /\ \A i \in DOMAIN Received(p) : Received(p)'[i] = Received(p)[i]
      /\ Received(p)'[Len(Received(p)) + 1] = m
  BY <1>1
<1>3. Passed(p)' = Passed(p) /\ Passed(p) \subseteq DOMAIN Received(p)
  BY Zenon, <1>2 DEF Passed
<1>4. \A i \in Passed(p) : Received(p)'[i] = Received(p)[i]
  BY Zenon, <1>2, <1>3
<1>5. Done(p)' = Done(p)
  BY Zenon DEF Done
<1>6. SentInOrder(p)' /\ Holds(p)'
  BY Zenon DEF Stream, SentInOrder, Holds
<1>7. PassedInOrder(p)'
  BY <1>3, <1>4, <1>5 DEF Stream, PassedInOrder, Before
<1>8. NoneLeftOut(p)'
  BY Zenon, <1>3, <1>4, <1>5 DEF Stream, NoneLeftOut
<1> QED
  BY Zenon, <1>6, <1>7, <1>8 DEF Stream

(* The message p holds is written where those of p go.                     *)
LEMMA OwnWrite ==
    ASSUME NEW p \in Pumps, SessionType, Stream(p), pc[p] = "write", pc'[p] = "read",
           NEW kind \in Kinds(p), msg[p] = [from |-> p, kind |-> kind, n |-> taken[p]],
           Passes(msg[p]), Received(p)' = Append(Received(p), Reply(p, msg[p])),
           UNCHANGED <<sent, taken>>
    PROVE  Stream(p)'
<1> DEFINE l == Len(Received(p)) + 1
           r == Reply(p, msg[p])
<1>1. /\ taken[p] \in Nat \ {0} /\ Done(p) = taken[p] - 1 /\ Done(p)' = taken[p]
      /\ msg[p] = sent[p][taken[p]]
  BY DEF SessionType, Stream, Holds, Done
<1>2. r \in Messages /\ r.n = taken[p] /\ r.from = p
  BY <1>1, ReplyIs
<1>3. Received(p) \in Seq(Messages)
  BY Zenon, OtherPump DEF SessionType, Received
<1>4. /\ DOMAIN Received(p)' = DOMAIN Received(p) \cup {l}
      /\ l \in Nat /\ \A i \in DOMAIN Received(p) : i \in Nat /\ i < l
      /\ \A i \in DOMAIN Received(p) : Received(p)'[i] = Received(p)[i]
      /\ Received(p)'[l] = r
  BY <1>2, <1>3
<1> HIDE DEF l, r
<1>5. /\ Passed(p)' = Passed(p) \cup {l}
      /\ \A i \in Passed(p) : i \in Nat /\ i < l /\ Received(p)'[i] = Received(p)[i]
  BY <1>2, <1>4 DEF Passed
<1>6. \A i \in Passed(p) : Received(p)[i].n \in 1..(taken[p] - 1)
  BY Zenon, <1>1 DEF Stream, PassedInOrder
<1>7. SentInOrder(p)' /\ Holds(p)'
  BY Zenon DEF Stream, SentInOrder, Holds
<1>8. \A k \in 1..(taken[p] - 1) : Passes(sent[p][k]) => \E j \in Passed(p) : Received(p)[j].n = k
  BY Zenon, <1>1 DEF Stream, NoneLeftOut
<1>9. PassedInOrder(p)'
  <2> SUFFICES ASSUME NEW i \in Passed(p) \cup {l}
               PROVE  /\ Received(p)'[i].n \in 1..taken[p]
                      /\ Received(p)'[i] = Reply(p, sent[p][Received(p)'[i].n])
                      /\ Passes(sent[p][Received(p)'[i].n])
                      /\ \A j \in Passed(p) \cup {l} :
                            j < i => Received(p)'[j].n < Received(p)'[i].n
                      /\ \A k \in 1..(Received(p)'[i].n - 1) :
                            Passes(sent[p][k]) => Before(p, i, k)'
    BY Zenon, <1>1, <1>5 DEF PassedInOrder
  <2>1. CASE i \in Passed(p)
    <3>1. Received(p)'[i] = Received(p)[i] /\ i \in Nat /\ i < l /\ l \in Nat
      BY Zenon, <1>4, <1>5, <2>1
    <3>2. Received(p)[i].n \in 1..taken[p]
      BY <1>1, <1>6, <2>1
    <3>3. \A k : Before(p, i, k) => Before(p, i, k)'
      BY Zenon, <1>5 DEF Before
    <3>4. ASSUME NEW j \in Passed(p) \cup {l}, j < i
          PROVE  Received(p)'[j].n < Received(p)[i].n
      <4>1. j \in Passed(p)
        BY <3>1, <3>4
      <4> QED
        BY Zenon, <1>5, <2>1, <3>4, <4>1 DEF Stream, PassedInOrder
    <3> QED
      BY Zenon, <2>1, <3>1, <3>2, <3>3, <3>4 DEF Stream, PassedInOrder
  <2>2. CASE i = l
    <3>1. Received(p)'[i].n = taken[p] /\ Received(p)'[i] = Reply(p, sent[p][taken[p]])
          /\ Passes(sent[p][taken[p]])
      BY Zenon, <1>1, <1>2, <1>4, <2>2 DEF r
    <3>2. ASSUME NEW j \in Passed(p) \cup {l}, j < i
          PROVE  Received(p)'[j].n < taken[p]
      <4>1. j \in Passed(p)
        BY <1>4, <2>2, <3>2
      <4>2. Received(p)[j].n < taken[p]
        BY <1>1, <1>6, <4>1
      <4> QED
        BY ZenonT(60), <1>5, <4>1, <4>2
    <3>3. \A k \in 1..(taken[p] - 1) : Passes(sent[p][k]) => Before(p, i, k)'
      BY Zenon, <1>5, <1>8, <2>2 DEF Before
    <3>4. taken[p] \in 1..taken[p]
      BY <1>1
    <3> QED
      BY ZenonT(60), <3>1, <3>2, <3>3, <3>4
  <2> QED
    BY Zenon, <2>1, <2>2
<1>10. NoneLeftOut(p)'
  <2> SUFFICES ASSUME NEW k \in 1..taken[p], Passes(sent[p][k])
               PROVE  \E j \in Passed(p) \cup {l} : Received(p)'[j].n = k
    BY Zenon, <1>1, <1>5 DEF NoneLeftOut
  <2>1. CASE k = taken[p]
    BY <1>2, <1>4, <2>1
  <2>2. CASE k \in 1..(taken[p] - 1)
    BY Zenon, <1>5, <1>8, <2>2
  <2>3. k = taken[p] \/ k \in 1..(taken[p] - 1)
    BY <1>1
  <2> QED
    BY Zenon, <2>1, <2>2, <2>3
<1> QED
  BY Zenon, <1>7, <1>9, <1>10 DEF Stream

(* A message answered here reaches nobody else.                            *)
LEMMA LocalWrite ==
    ASSUME NEW p \in Pumps, SessionType, Stream(p), pc[p] = "write", pc'[p] = "read",
           ~Passes(msg[p]), Received(p)' = Received(p), UNCHANGED <<sent, taken>>
    PROVE  Stream(p)'
<1>1. /\ taken[p] \in Nat \ {0} /\ Done(p) = taken[p] - 1 /\ Done(p)' = taken[p]
      /\ ~Passes(sent[p][taken[p]])
  BY DEF SessionType, Stream, Holds, Done
<1>2. Passed(p)' = Passed(p)
  BY Zenon DEF Passed
<1>3. SentInOrder(p)' /\ Holds(p)'
  BY Zenon DEF Stream, SentInOrder, Holds
<1>4. PassedInOrder(p)'
  BY <1>1, <1>2 DEF Stream, PassedInOrder, Before
<1>5. NoneLeftOut(p)'
  <2> SUFFICES ASSUME NEW k \in 1..taken[p], Passes(sent[p][k])
               PROVE  \E j \in Passed(p) : Received(p)[j].n = k
    BY Zenon, <1>1, <1>2 DEF NoneLeftOut
  <2>1. k \in 1..(taken[p] - 1)
    BY <1>1
  <2> QED
    BY Zenon, <1>1, <2>1 DEF Stream, NoneLeftOut
<1> QED
  BY Zenon, <1>3, <1>4, <1>5 DEF Stream

LEMMA WriteKeepsOrder == ASSUME StreamInv, NEW p \in Pumps, Write(p) PROVE StreamInv'
<1>1. Stream(p) /\ SessionType
  BY DEF StreamInv
<1>2. PICK kind \in Kinds(p) : msg[p] = [from |-> p, kind |-> kind, n |-> taken[p]]
  <2>1. taken[p] \in 1..Len(sent[p]) /\ msg[p] = sent[p][taken[p]]
    BY <1>1 DEF Write, Stream, Holds, SentInOrder, SessionType
  <2> QED
    BY Zenon, <1>1, <2>1 DEF Stream, SentInOrder
<1> DEFINE m == msg[p]
           q == Target(p, m)
<1>3. /\ Reply(p, m) \in Messages /\ Reply(p, m).from = IF Passes(m) THEN p ELSE "proxyd"
      /\ q = IF Passes(m) THEN Other(p) ELSE p
  BY <1>1, <1>2, ReplyIs DEF SessionType
<1>4. /\ written' = [written EXCEPT ![q] = Append(written[q], Reply(p, m))]
      /\ pc[p] = "write" /\ pc' = [pc EXCEPT ![p] = "read"]
      /\ msg' = [msg EXCEPT ![p] = NoMsg] /\ UNCHANGED <<sent, taken, phase>>
  BY Zenon DEF Write, Written, Goto, session, peers
<1> HIDE DEF m, q
<1>5. q \in Pumps
  BY Zenon, <1>3, OtherPump
<1>6. SessionType'
  BY <1>1, <1>3, <1>4, <1>5 DEF SessionType
<1>7. phase' \notin {"none", "handshake", "dial"}
  BY Zenon, <1>4 DEF StreamInv
<1>8. Stream(p)'
  <2>1. CASE Passes(m)
    <3>1. Received(p)' = Append(Received(p), Reply(p, m))
      BY Zenon, <1>1, <1>3, <1>4, <1>5, <2>1 DEF Received, SessionType
    <3> QED
      BY Zenon, <1>1, <1>2, <1>4, <2>1, <3>1, OwnWrite DEF m, SessionType
  <2>2. CASE ~Passes(m)
    <3>1. Received(p)' = Received(p)
      BY Zenon, <1>1, <1>3, <1>4, <2>2, OtherPump DEF Received, SessionType
    <3> QED
      BY Zenon, <1>1, <1>4, <2>2, <3>1, LocalWrite DEF m, SessionType
  <2> QED
    BY <2>1, <2>2
<1>9. Stream(Other(p))'
  <2>1. PICK o \in Pumps : o = Other(p) /\ o # p /\ Other(o) = p /\ Stream(o)
    BY Zenon, OtherPump DEF StreamInv
  <2>2. pc'[o] = pc[o] /\ msg'[o] = msg[o]
    BY Zenon, <1>1, <1>4, <2>1 DEF SessionType
  <2>3. CASE Passes(m)
    <3>1. Received(o)' = Received(o)
      BY Zenon, <1>1, <1>3, <1>4, <2>1, <2>3 DEF Received, SessionType
    <3> QED
      BY Zenon, <1>1, <1>4, <2>1, <2>2, <3>1, Untouched
  <2>4. CASE ~Passes(m)
    <3>1. Received(o)' = Append(Received(o), Reply(p, m)) /\ Reply(p, m).from # o
      BY Zenon, <1>1, <1>3, <1>4, <2>1, <2>4 DEF Received, SessionType, Pumps
    <3> QED
      BY Zenon, <1>1, <1>3, <1>4, <2>1, <2>2, <3>1, ForeignWrite
  <2> QED
    BY Zenon, <2>1, <2>3, <2>4
<1> QED
  BY Zenon, <1>6, <1>7, <1>8, <1>9, OtherPump DEF StreamInv

(* The rest of a session, and the end of the process.                      *)
LEMMA NothingYet ==
    ASSUME sent' = [p \in Pumps |-> << >>], written' = [p \in Pumps |-> << >>],
           taken' = [p \in Pumps |-> 0], pc' = [p \in Pumps |-> "idle"],
           msg' = [p \in Pumps |-> NoMsg]
    PROVE  StreamInv'
<1>1. SessionType'
  BY DEF SessionType
<1>2. ASSUME NEW p \in Pumps PROVE Stream(p)'
  <2>1. Received(p)' = << >> /\ Passed(p)' = {} /\ Done(p)' = 0
    BY OtherPump DEF Received, Passed, Done
  <2> QED
    BY <2>1 DEF Stream, SentInOrder, Holds, PassedInOrder, NoneLeftOut
<1> QED
  BY <1>1, <1>2 DEF StreamInv

LEMMA StreamUnchanged == ASSUME StreamInv, UNCHANGED wsVars PROVE StreamInv'
<1>1. SessionType'
  BY Zenon DEF StreamInv, SessionType, wsVars
<1>2. ASSUME NEW p \in Pumps PROVE Stream(p)'
  BY Zenon, <1>2, Untouched DEF StreamInv, wsVars, Received
<1> QED
  BY Zenon, <1>1, <1>2 DEF StreamInv, wsVars

LEMMA HandleKeepsOrder ==
    ASSUME StreamInv, Handle \/ ProxyReturns \/ Connect
    PROVE  StreamInv'
<1>1. SessionType /\ SessionType'
  BY Zenon DEF StreamInv, SessionType, Handle, Refuse, Upgrade, DialFails, Dial, NoBackends,
     ProxyReturns, Connect, peers
<1>2. UNCHANGED <<sent, taken, written, msg>> /\ \A p \in Pumps : UNCHANGED Received(p)
  BY Zenon DEF Handle, Refuse, Upgrade, DialFails, Dial, NoBackends, ProxyReturns, Connect, peers,
     Received
<1>3. \A p \in Pumps : pc'[p] = pc[p] \/ (pc[p] = "idle" /\ pc'[p] = "read")
  BY Zenon DEF StreamInv, Handle, Refuse, Upgrade, DialFails, Dial, NoBackends, ProxyReturns,
     Connect
<1>4. phase' \in {"none", "handshake", "dial"} => pc' = [p \in Pumps |-> "idle"]
  BY Zenon DEF StreamInv, Handle, Refuse, Upgrade, DialFails, Dial, NoBackends, ProxyReturns,
     Connect
<1>5. ASSUME NEW p \in Pumps PROVE Stream(p)'
  BY Zenon, <1>1, <1>2, <1>3, Untouched DEF StreamInv
<1> QED
  BY Zenon, <1>1, <1>4, <1>5 DEF StreamInv

LEMMA PeerKeepsOrder ==
    ASSUME StreamInv, NEW p \in Pumps, NEW kind \in Kinds(p), NEW max, PeerSends(p, kind, max)
    PROVE  StreamInv'
<1>1. SessionType /\ Stream(p) /\ UNCHANGED <<phase, taken, pc, msg, written>>
  BY Zenon DEF StreamInv, PeerSends, session
<1>2. sent' = [sent EXCEPT ![p] =
                 Append(sent[p], [from |-> p, kind |-> kind, n |-> Len(sent[p]) + 1])]
  BY Zenon DEF PeerSends
<1>3. Stream(p)' /\ sent'[p] \in Seq(Messages)
  BY Zenon, <1>1, <1>2, SendKeepsOrder DEF SessionType
<1>4. SessionType'
  BY Zenon, <1>1, <1>2, <1>3 DEF SessionType
<1>5. ASSUME NEW o \in Pumps, o # p PROVE Stream(o)'
  BY Zenon, <1>1, <1>2, <1>5, Untouched DEF StreamInv, SessionType, Received
<1> QED
  BY Zenon, <1>1, <1>3, <1>4, <1>5 DEF StreamInv

LEMMA PumpKeepsOrder == ASSUME StreamInv, NEW p \in Pumps, Pump(p) PROVE StreamInv'
<1>1. SessionType /\ Stream(p) /\ UNCHANGED <<sent, phase>>
  BY Zenon DEF StreamInv, Pump, ReadMessage, ReadFails, Write, WriteFails, WriteClose,
     WriteCloseFails, WriteNoFrame, session, peers
<1>2. CASE ReadMessage(p)
  <2>1. /\ pc[p] = "read" /\ taken[p] < Len(sent[p]) /\ pc' = [pc EXCEPT ![p] = "write"]
        /\ msg' = [msg EXCEPT ![p] = sent[p][taken[p] + 1]]
        /\ taken' = [taken EXCEPT ![p] = taken[p] + 1] /\ UNCHANGED written
    BY Zenon, <1>2 DEF ReadMessage, Goto
  <2>2. sent[p][taken[p] + 1] \in Messages /\ taken[p] + 1 \in Nat
    BY <1>1, <2>1 DEF SessionType
  <2>3. SessionType'
    BY Zenon, <1>1, <2>1, <2>2 DEF SessionType
  <2>4. Stream(p)'
    BY Zenon, <1>1, <2>1, ReadKeepsOrder DEF SessionType
  <2>5. ASSUME NEW o \in Pumps, o # p PROVE Stream(o)'
    BY Zenon, <1>1, <2>1, <2>5, Untouched DEF StreamInv, SessionType, Received
  <2> QED
    BY Zenon, <1>1, <2>1, <2>3, <2>4, <2>5 DEF StreamInv
<1>3. CASE Write(p)
  BY <1>3, WriteKeepsOrder
<1>4. CASE ReadFails(p) \/ WriteFails(p) \/ WriteClose(p) \/ WriteCloseFails(p) \/ WriteNoFrame(p)
  <2>1. PICK l \in {"closeMsg", "noFrame", "end"} : pc' = [pc EXCEPT ![p] = l] /\ pc[p] # "idle"
    BY Zenon, <1>4 DEF ReadFails, WriteFails, WriteClose, WriteCloseFails, WriteNoFrame, Goto, Ends
  <2>2. UNCHANGED <<taken, written>> /\ (UNCHANGED msg \/ msg' = [msg EXCEPT ![p] = NoMsg])
    BY Zenon, <1>4 DEF ReadFails, WriteFails, WriteClose, WriteCloseFails, WriteNoFrame
  <2>3. SessionType'
    BY Zenon, <1>1, <2>1, <2>2 DEF SessionType
  <2>4. ASSUME NEW o \in Pumps PROVE Stream(o)'
    <3>1. pc'[o] \in {"closeMsg", "noFrame", "end"} \/ (pc'[o] = pc[o] /\ msg'[o] = msg[o])
      BY Zenon, <1>1, <2>1, <2>2 DEF SessionType
    <3> QED
      BY Zenon, <1>1, <2>2, <3>1, Untouched DEF StreamInv, Received
  <2> QED
    BY Zenon, <1>1, <2>1, <2>3, <2>4 DEF StreamInv, SessionType
<1> QED
  BY Zenon, <1>2, <1>3, <1>4 DEF Pump

LEMMA StreamInductive == StreamInv /\ [Next]_vars => StreamInv'
<1> SUFFICES ASSUME StreamInv, [Next]_vars PROVE StreamInv'
  OBVIOUS
<1>1. CASE UNCHANGED wsVars
  BY <1>1, StreamUnchanged
<1>2. CASE Connect \/ Handle \/ ProxyReturns
  BY <1>2, HandleKeepsOrder
<1>3. ASSUME NEW p \in Pumps, Pump(p) PROVE StreamInv'
  BY <1>3, PumpKeepsOrder
<1>4. ASSUME NEW p \in Pumps, PeerLeaves(p) PROVE StreamInv'
  <2>1. UNCHANGED <<phase, pc, msg, sent, taken, written>>
    BY Zenon, <1>4 DEF PeerLeaves, session
  <2>2. SessionType'
    BY Zenon, <2>1 DEF StreamInv, SessionType
  <2>3. ASSUME NEW o \in Pumps PROVE Stream(o)'
    BY Zenon, <2>1, Untouched DEF StreamInv, Received
  <2> QED
    BY Zenon, <2>1, <2>2, <2>3 DEF StreamInv
<1>5. ASSUME NEW p \in Pumps, NEW kind \in Kinds(p), PeerSends(p, kind, MaxMessages[ports])
      PROVE  StreamInv'
  BY <1>5, PeerKeepsOrder
<1>6. ASSUME NEW how, EndProcess(how) PROVE StreamInv'
  BY Zenon, <1>6, NothingYet DEF EndProcess, WSGone
<1>7. CASE Next
  <2>1. CASE Session
    BY Zenon, <1>2, <1>3, <1>4, <1>5, <2>1 DEF Session
  <2>2. CASE Accept
    BY <1>2, <2>2 DEF Accept
  <2>3. CASE Main
    BY Zenon, <1>1, <1>6, <2>3 DEF Main, Attach, AttachFails, TimerFires, Lock, CloseListener,
       ShutdownReturns, NoServer, ShutdownGroups, Exit
  <2>4. CASE Signal \/ Arrives \/ Answered
    BY Zenon, <1>1, <2>4 DEF Signal, Arrives, Answered
  <2>5. ASSUME NEW s \in Servers, Make(s) \/ Listen(s) \/ ListenFails(s) PROVE StreamInv'
    BY Zenon, <1>1, <1>6, <2>5 DEF Make, Listen, ListenFails
  <2> QED
    BY Zenon, <1>7, <2>1, <2>2, <2>3, <2>4, <2>5 DEF Next
<1> QED
  BY <1>1, <1>7 DEF vars

(* A WebSocket session passes the messages of either side on in order,     *)
(* none twice and none left out, whatever the other pump, the peers and    *)
(* the process that serves it do.                                          *)
THEOREM SessionKeepsOrder == Spec => []StreamsInOrder
<1>1. Init => StreamInv
  <2> SUFFICES ASSUME Init PROVE StreamInv
    OBVIOUS
  <2>1. SessionType
    BY DEF Init, WSInit, SessionType
  <2>2. ASSUME NEW p \in Pumps PROVE Stream(p)
    <3>1. Received(p) = << >> /\ Passed(p) = {} /\ Done(p) = 0
      BY OtherPump DEF Init, WSInit, Received, Passed, Done
    <3> QED
      BY <3>1 DEF Init, WSInit, Stream, SentInOrder, Holds, PassedInOrder, NoneLeftOut
  <2> QED
    BY Zenon, <2>1, <2>2 DEF Init, WSInit, StreamInv
<1>2. StreamInv => StreamsInOrder
  <2> SUFFICES ASSUME StreamInv, NEW p \in Pumps, NEW i \in Passed(p)
               PROVE  LET n == Received(p)[i].n
                          earlier == {Received(p)[j].n : j \in {j \in Passed(p) : j < i}}
                      IN /\ n \in DOMAIN sent[p] /\ Received(p)[i] = Reply(p, sent[p][n])
                         /\ earlier = {k \in 1..(n - 1) : Passes(sent[p][k])}
    BY Zenon DEF StreamsInOrder
  <2>1. SessionType /\ SentInOrder(p) /\ Holds(p) /\ PassedInOrder(p)
    BY DEF StreamInv, Stream
  <2>2. Done(p) \in 0..Len(sent[p])
    BY <2>1 DEF SessionType, SentInOrder, Holds, Done
  <2>3. \A j \in Passed(p) :
            Received(p)[j].n \in 1..Len(sent[p]) /\ Passes(sent[p][Received(p)[j].n])
    BY <2>1, <2>2 DEF PassedInOrder, SessionType
  <2>4. \A j \in Passed(p) : j < i => Received(p)[j].n \in 1..(Received(p)[i].n - 1)
    BY <2>1, <2>3 DEF PassedInOrder
  <2>5. \A k \in 1..(Received(p)[i].n - 1) : Passes(sent[p][k]) => Before(p, i, k)
    BY Zenon, <2>1 DEF PassedInOrder
  <2>6. Received(p)[i] = Reply(p, sent[p][Received(p)[i].n])
    BY Zenon, <2>1 DEF PassedInOrder
  <2>7. Received(p)[i].n \in DOMAIN sent[p]
    BY <2>1, <2>3 DEF SessionType
  <2>8. {Received(p)[j].n : j \in {j \in Passed(p) : j < i}}
            = {k \in 1..(Received(p)[i].n - 1) : Passes(sent[p][k])}
    BY Zenon, <2>3, <2>4, <2>5 DEF Before
  <2> QED
    BY Zenon, <2>6, <2>7, <2>8
<1> QED
  BY <1>1, <1>2, StreamInductive, PTL DEF Spec
=============================================================================

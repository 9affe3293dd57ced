--------------------------- MODULE HostLinkProofs ---------------------------
(***************************************************************************)
(* What is proved of HostLink, for any number of dials, questions and      *)
(* database attempts: a connection that was closed stays closed, and the   *)
(* last status written is the stopped one.                                 *)
(***************************************************************************)
EXTENDS HostLink, TLAPS

(* What of TypeOK the proofs use; how many attempts the provider has made does
   not matter to them. *)
Counting == [phase : {"initializing", "retrying", "ready"}, busy : BOOLEAN,
             timer : BOOLEAN, stopped : BOOLEAN, attempts : Nat]

LinkTyped ==
  /\ host \in HostPhase
  /\ link \in Connection
  /\ dial \in [Dials -> Socket]
  /\ pg \in Counting
  /\ queue \in Seq({"host", "postgres", "heartbeat"})

(* A dial that is not over: reading its credential, or holding a socket. *)
Active(d) == dial[d].sock \in {"loading", "connecting", "open", "closing"}

(* No socket is open or being opened, no timer is armed, and a dial still
   reading its credential will find the connection stopped. *)
Quiet ==
  /\ ~link.timer
  /\ \A d \in Dials : ~Live(d)
  /\ \A d \in Dials : dial[d].sock = "loading" => link.stopped

(* There is one chain of dials: the next is begun only by the timer, which only
   the close event of the last socket arms. *)
OneChain ==
  /\ \A d, e \in Dials : Active(d) /\ Active(e) => d = e
  /\ link.timer => \A d \in Dials : ~Active(d)

(* The connection's `ws` is the socket of that chain, and a socket is closing
   only because the connection was stopped. *)
Held ==
  \A d \in Dials : /\ dial[d].sock \in {"connecting", "open", "closing"} => link.ws = d
                   /\ dial[d].sock = "closing" => link.stopped

(* Nothing is dialled before the host opens the connection, and nothing is begun
   once it is offline, closed, or the host is past closing it. *)
LinkSafe ==
  /\ OneChain /\ Held
  /\ host \in {"boot", "postgres"} =>
       link.closed = "no" /\ ~link.timer /\ \A d \in Dials : dial[d].sock = "unused"
  /\ link.state = "offline" => Quiet
  /\ link.closed # "no" => Quiet /\ link.stopped
  /\ host \in {"closing", "final", "done"} => Quiet

LinkInv == LinkTyped /\ LinkSafe

(* Types first.  A record with one field replaced by a value of its type is
   still of the type; the helpers of the tunnel keep it too. *)
LEMMA SettledTyped ==
  ASSUME NEW l \in Connection, NEW d, NEW outcome \in {"ok", "failed"}
  PROVE  /\ Settled(l, d, outcome) \in Connection
         /\ Settled(l, d, outcome).state = l.state
         /\ Settled(l, d, outcome).stopped = l.stopped
         /\ Settled(l, d, outcome).ws = l.ws
         /\ Settled(l, d, outcome).timer = l.timer
         /\ Settled(l, d, outcome).closed = l.closed
  BY DEF Settled, Connection

LEMMA NextDialTyped ==
  ASSUME LinkTyped, NEW l \in Connection, NextDial(l)
  PROVE  link' \in Connection /\ dial' \in [Dials -> Socket]
<1>1. CASE l.stopped
  BY <1>1 DEF NextDial, Connection, LinkTyped
<1>2. CASE ~l.stopped
  <2>1. PICK d \in Dials : dial' = [dial EXCEPT ![d].sock = "loading"] /\ link' = l
    BY <1>2 DEF NextDial
  <2>2. QED BY <2>1 DEF LinkTyped, Socket
<1>3. QED BY <1>1, <1>2 DEF Connection

LEMMA ClosingTyped ==
  ASSUME LinkTyped, NEW after \in HostPhase, Closing(after)
  PROVE  host' \in HostPhase /\ link' \in Connection /\ dial' \in [Dials -> Socket]
<1>1. link' \in Connection
  BY DEF Closing, LinkTyped, Connection
<1>2. dial' \in [Dials -> Socket]
  <2>1. CASE link.ws # 0 /\ Live(link.ws)
    <3>1. link.ws \in Dials BY <2>1 DEF LinkTyped, Connection, Dials
    <3>2. dial' = [dial EXCEPT ![link.ws].sock = "closing"] BY <2>1 DEF Closing
    <3>3. QED BY <3>1, <3>2 DEF LinkTyped, Socket
  <2>2. CASE ~(link.ws # 0 /\ Live(link.ws))
    BY <2>2 DEF Closing, LinkTyped
  <2>3. QED BY <2>1, <2>2
<1>3. QED BY <1>1, <1>2 DEF Closing

LEMMA DialTyped ==
  ASSUME LinkTyped, NEW d \in Dials,
         DialStep(d) \/ HubAnswer(d) \/ HubRefuse(d) \/ SocketClosed(d)
  PROVE  link' \in Connection /\ dial' \in [Dials -> Socket]
<1>1. CASE CredentialLoaded(d)
  <2>1. dial' \in [Dials -> Socket]
    BY <1>1 DEF CredentialLoaded, LinkTyped, Socket
  <2>2. d \in 0..MaxDials
    BY DEF Dials
  <2>3. /\ [link EXCEPT !.state = "offline"] \in Connection
        /\ [link EXCEPT !.ws = d] \in Connection
    BY <2>2 DEF LinkTyped, Connection
  <2>4. Settled([link EXCEPT !.state = "offline"], d, "failed") \in Connection
    BY <2>3, SettledTyped
  <2>5. link' \in {[link EXCEPT !.state = "offline"], [link EXCEPT !.ws = d],
                   Settled([link EXCEPT !.state = "offline"], d, "failed")}
    BY <1>1 DEF CredentialLoaded
  <2>6. QED BY <2>1, <2>3, <2>4, <2>5
<1>2. CASE SocketOpen(d) \/ Greet(d) \/ HubAnswer(d)
  BY <1>2 DEF SocketOpen, Greet, HubAnswer, LinkTyped, Socket
<1>3. CASE KeyPersisted(d)
  <2>1. dial' \in [Dials -> Socket]
    BY <1>3 DEF KeyPersisted, LinkTyped, Socket
  <2>2. /\ [link EXCEPT !.token = FALSE] \in Connection
        /\ [link EXCEPT !.state = "connected"] \in Connection
    BY DEF LinkTyped, Connection
  <2>3. Settled([link EXCEPT !.state = "connected"], d, "ok") \in Connection
    BY <2>2, SettledTyped
  <2>4. QED BY <1>3, <2>1, <2>2, <2>3 DEF KeyPersisted
<1>4. CASE CredentialSaved(d)
  <2>1. dial' \in [Dials -> Socket]
    BY <1>4 DEF CredentialSaved, LinkTyped, Socket
  <2>2. PICK saved \in {TRUE, ~LoadFails} :
          link' = Settled([link EXCEPT !.state = "connected", !.cred = @ \/ saved], d, "ok")
    BY <1>4 DEF CredentialSaved
  <2>3. link.cred \/ saved \in BOOLEAN
    OBVIOUS
  <2>4. [link EXCEPT !.state = "connected", !.cred = @ \/ saved] \in Connection
    BY <2>3 DEF LinkTyped, Connection
  <2>5. QED BY <2>1, <2>2, <2>4, SettledTyped
<1>5. CASE HubRefuse(d)
  <2>1. [link EXCEPT !.stopped = TRUE] \in Connection
    BY DEF LinkTyped, Connection
  <2>2. link' \in Connection
    BY <1>5, <2>1, SettledTyped DEF HubRefuse
  <2>3. dial' \in [Dials -> Socket]
    <3> DEFINE first == [dial EXCEPT ![d].greet = "answered"]
    <3>1. first \in [Dials -> Socket]
      BY DEF LinkTyped, Socket
    <3>2. dial' = [first EXCEPT ![link.ws].sock = "closing"]
      BY <1>5 DEF HubRefuse
    <3> HIDE DEF first
    <3>3. QED BY <3>1, <3>2 DEF Socket
  <2>4. QED BY <2>2, <2>3
<1>6. CASE SocketClosed(d)
  <2>1. dial' \in [Dials -> Socket]
    BY <1>6 DEF SocketClosed, LinkTyped, Socket
  <2>2. CASE link.stopped
    <3>1. [link EXCEPT !.state = "offline",
                       !.closed = IF @ = "pending" THEN "resolved" ELSE @] \in Connection
      BY DEF LinkTyped, Connection
    <3>2. QED BY <1>6, <2>1, <2>2, <3>1, SettledTyped DEF SocketClosed
  <2>3. CASE ~link.stopped
    BY <1>6, <2>1, <2>3 DEF SocketClosed, Rearms, LinkTyped, Connection
  <2>4. QED BY <2>2, <2>3
<1>7. QED BY <1>1, <1>2, <1>3, <1>4, <1>5, <1>6 DEF DialStep

(* What the steps of one dial do to the fields LinkInv is about: they leave the
   other sockets and most of the connection alone. *)
SameLink ==
  /\ link'.timer = link.timer /\ link'.stopped = link.stopped
  /\ link'.ws = link.ws /\ link'.closed = link.closed
  /\ host' = host

LEMMA LoadedEffect ==
  ASSUME LinkTyped, NEW d \in Dials, CredentialLoaded(d)
  PROVE  /\ dial[d].sock = "loading" /\ host' = host
         /\ \A e \in Dials \ {d} : dial'[e] = dial[e]
         /\ \/ /\ ~link.stopped /\ dial'[d].sock = "connecting"
               /\ link' = [link EXCEPT !.ws = d]
            \/ /\ SameLink /\ dial'[d].sock = "abandoned" /\ link'.state = "offline"
<1>1. [link EXCEPT !.state = "offline"] \in Connection
  BY DEF LinkTyped, Connection
<1>2. PICK readable \in {TRUE, ~LoadFails} :
        IF readable /\ (link.cred \/ link.token) /\ StillWanted
        THEN /\ dial' = [dial EXCEPT ![d].sock = "connecting"]
             /\ link' = [link EXCEPT !.ws = d]
        ELSE /\ dial' = [dial EXCEPT ![d].sock = "abandoned"]
             /\ link' = IF readable /\ (link.cred \/ link.token)
                        THEN [link EXCEPT !.state = "offline"]
                        ELSE Settled([link EXCEPT !.state = "offline"], d, "failed")
  BY DEF CredentialLoaded
<1>3. dial[d].sock = "loading" /\ host' = host
  BY DEF CredentialLoaded, hostVars
<1>4. CASE readable /\ (link.cred \/ link.token) /\ StillWanted
  BY <1>2, <1>3, <1>4 DEF StillWanted, LinkTyped, Socket
<1>5. CASE ~(readable /\ (link.cred \/ link.token) /\ StillWanted)
  <2>1. /\ dial' = [dial EXCEPT ![d].sock = "abandoned"]
        /\ \/ link' = [link EXCEPT !.state = "offline"]
           \/ link' = Settled([link EXCEPT !.state = "offline"], d, "failed")
    BY <1>2, <1>5
  <2>2. SameLink /\ link'.state = "offline"
    BY <1>1, <1>3, <2>1, SettledTyped DEF SameLink, LinkTyped, Connection
  <2>3. QED BY <1>3, <2>1, <2>2 DEF LinkTyped, Socket
<1>6. QED BY <1>4, <1>5

LEMMA TalkEffect ==
  ASSUME LinkTyped, NEW d \in Dials,
         SocketOpen(d) \/ Greet(d) \/ HubAnswer(d) \/ KeyPersisted(d) \/ CredentialSaved(d)
  PROVE  /\ SameLink /\ link'.state \in {link.state, "connected"}
         /\ \A e \in Dials : \/ dial'[e].sock = dial[e].sock
                             \/ dial[e].sock = "connecting" /\ dial'[e].sock = "open"
<1>1. CASE SocketOpen(d) \/ Greet(d) \/ HubAnswer(d)
  <2>1. SameLink /\ link'.state = link.state
    BY <1>1 DEF SocketOpen, Greet, HubAnswer, SameLink, hostVars
  <2>2. \A e \in Dials \ {d} : dial'[e] = dial[e]
    BY <1>1 DEF SocketOpen, Greet, HubAnswer, LinkTyped
  <2>3. CASE SocketOpen(d)
    BY <2>1, <2>2, <2>3 DEF SocketOpen, LinkTyped, Socket
  <2>4. CASE Greet(d)
    <3>1. PICK g \in {"sent", "answered"} : dial' = [dial EXCEPT ![d].greet = g]
      BY <2>4 DEF Greet
    <3>2. QED BY <2>1, <3>1 DEF LinkTyped, Socket
  <2>5. CASE HubAnswer(d)
    BY <2>1, <2>2, <2>5 DEF HubAnswer, LinkTyped, Socket
  <2>6. QED BY <1>1, <2>3, <2>4, <2>5
<1>2. CASE KeyPersisted(d)
  <2>1. [link EXCEPT !.state = "connected"] \in Connection
    BY DEF LinkTyped, Connection
  <2>2. /\ host' = host
        /\ \/ link' = [link EXCEPT !.token = FALSE]
           \/ link' = Settled([link EXCEPT !.state = "connected"], d, "ok")
        /\ \E h \in {"saving", "none"} : dial' = [dial EXCEPT ![d].handler = h]
    BY <1>2 DEF KeyPersisted, hostVars
  <2>3. SameLink /\ link'.state \in {link.state, "connected"}
    BY <2>1, <2>2, SettledTyped DEF SameLink, LinkTyped, Connection
  <2>4. QED BY <2>2, <2>3 DEF LinkTyped, Socket
<1>3. CASE CredentialSaved(d)
  <2>1. PICK saved \in {TRUE, ~LoadFails} :
          link' = Settled([link EXCEPT !.state = "connected", !.cred = @ \/ saved], d, "ok")
    BY <1>3 DEF CredentialSaved
  <2>2. link.cred \/ saved \in BOOLEAN
    OBVIOUS
  <2> DEFINE l == [link EXCEPT !.state = "connected", !.cred = @ \/ saved]
  <2>3. /\ l \in Connection /\ l.state = "connected" /\ l.timer = link.timer
        /\ l.stopped = link.stopped /\ l.ws = link.ws /\ l.closed = link.closed
    BY <2>2 DEF LinkTyped, Connection
  <2>4. host' = host /\ dial' = [dial EXCEPT ![d].handler = "none"]
    BY <1>3 DEF CredentialSaved, hostVars
  <2>5. SameLink /\ link'.state = "connected"
    <3>1. link' = Settled(l, d, "ok") BY <2>1
    <3> HIDE DEF l
    <3>2. QED BY <2>3, <2>4, <3>1, SettledTyped DEF SameLink
  <2>6. QED BY <2>4, <2>5 DEF LinkTyped, Socket
<1>4. QED BY <1>1, <1>2, <1>3

LEMMA RefuseEffect ==
  ASSUME LinkTyped, Held, NEW d \in Dials, HubRefuse(d)
  PROVE  /\ host' = host /\ dial[d].sock = "open" /\ dial'[d].sock = "closing"
         /\ \A e \in Dials \ {d} : dial'[e].sock = dial[e].sock
         /\ link'.stopped /\ link'.ws = link.ws /\ link'.timer = link.timer
         /\ link'.state = link.state /\ link'.closed = link.closed
<1>1. dial[d].sock = "open" /\ link.ws = d /\ host' = host
  BY DEF HubRefuse, Greeted, Held, hostVars
<1>2. [link EXCEPT !.stopped = TRUE] \in Connection
  BY DEF LinkTyped, Connection
<1>3. link' = Settled([link EXCEPT !.stopped = TRUE], d, "failed")
  BY DEF HubRefuse
<1>4. /\ link'.stopped /\ link'.ws = link.ws /\ link'.timer = link.timer
      /\ link'.state = link.state /\ link'.closed = link.closed
  BY <1>2, <1>3, SettledTyped DEF LinkTyped, Connection
<1>5. dial' = [dial EXCEPT ![d].greet = "answered", ![d].sock = "closing"]
  BY <1>1 DEF HubRefuse
<1>6. QED BY <1>1, <1>4, <1>5 DEF LinkTyped, Socket

LEMMA ClosedEffect ==
  ASSUME LinkTyped, NEW d \in Dials, SocketClosed(d)
  PROVE  /\ host' = host /\ dial'[d].sock = "closed"
         /\ dial[d].sock \in {"connecting", "open", "closing"}
         /\ \A e \in Dials \ {d} : dial'[e] = dial[e]
         /\ link'.stopped = link.stopped /\ link'.ws = link.ws
         /\ IF link.stopped
            THEN /\ link'.state = "offline" /\ link'.timer = link.timer
                 /\ link.closed = "no" => link'.closed = "no"
            ELSE link'.state = "connecting" /\ link'.closed = link.closed
<1>1. /\ host' = host /\ dial[d].sock \in {"connecting", "open", "closing"}
      /\ dial' = [dial EXCEPT ![d].sock = "closed"]
  BY DEF SocketClosed, Live, hostVars
<1>2. CASE link.stopped
  <2> DEFINE l == [link EXCEPT !.state = "offline",
                               !.closed = IF @ = "pending" THEN "resolved" ELSE @]
  <2>1. /\ l \in Connection /\ l.state = "offline" /\ l.timer = link.timer
        /\ l.stopped = link.stopped /\ l.ws = link.ws
        /\ link.closed = "no" => l.closed = "no"
    BY DEF LinkTyped, Connection
  <2>2. link' = Settled(l, d, "failed")
    BY <1>2 DEF SocketClosed
  <2>3. dial'[d].sock = "closed" /\ \A e \in Dials \ {d} : dial'[e] = dial[e]
    BY <1>1 DEF LinkTyped, Socket
  <2> HIDE DEF l
  <2>4. /\ link'.state = "offline" /\ link'.timer = link.timer
        /\ link'.stopped = link.stopped /\ link'.ws = link.ws
        /\ link.closed = "no" => link'.closed = "no"
    <3>1. /\ Settled(l, d, "failed").state = l.state
          /\ Settled(l, d, "failed").stopped = l.stopped
          /\ Settled(l, d, "failed").ws = l.ws
          /\ Settled(l, d, "failed").timer = l.timer
          /\ Settled(l, d, "failed").closed = l.closed
      BY <2>1, SettledTyped
    <3>2. QED BY <2>1, <2>2, <3>1, Zenon
  <2>5. QED BY <1>1, <1>2, <2>3, <2>4, Zenon
<1>3. CASE ~link.stopped
  BY <1>1, <1>3 DEF SocketClosed, Rearms, LinkTyped, Connection, Socket
<1>4. QED BY <1>2, <1>3

(* Each of them keeps the safety part of LinkInv. *)
LEMMA LoadedSafe ==
  ASSUME LinkTyped, LinkSafe, NEW d \in Dials, CredentialLoaded(d)
  PROVE  LinkSafe'
<1>1. dial[d].sock = "loading" /\ Active(d)
  BY LoadedEffect DEF Active
<1>2. CASE /\ ~link.stopped /\ dial'[d].sock = "connecting" /\ link' = [link EXCEPT !.ws = d]
  <2>1. link'.ws = d /\ link'.timer = link.timer /\ link'.stopped = link.stopped
        /\ link'.state = link.state /\ link'.closed = link.closed
    BY <1>2 DEF LinkTyped, Connection
  <2>2. ~link.timer /\ link.state # "offline" /\ link.closed = "no"
        /\ host \notin {"boot", "postgres", "closing", "final", "done"}
    BY <1>1, <1>2 DEF LinkSafe, OneChain, Quiet
  <2>3. \A e \in Dials \ {d} : ~Active(e) /\ dial'[e] = dial[e]
    BY <1>1, LoadedEffect DEF LinkSafe, OneChain
  <2>4. host' = host BY LoadedEffect
  <2>5. QED BY <1>2, <2>1, <2>2, <2>3, <2>4 DEF LinkSafe, OneChain, Held, Active
<1>3. CASE SameLink /\ dial'[d].sock = "abandoned" /\ link'.state = "offline"
  <2>1. \A e \in Dials \ {d} : ~Active(e) /\ dial'[e] = dial[e]
    BY <1>1, LoadedEffect DEF LinkSafe, OneChain
  <2>2. ~link.timer BY <1>1 DEF LinkSafe, OneChain
  <2>3. \A e \in Dials : ~Active(e)'
    BY <1>3, <2>1 DEF Active
  <2>4. Quiet'
    BY <1>3, <2>2, <2>3 DEF Quiet, Live, Active, SameLink
  <2>5. OneChain' /\ Held'
    BY <2>3 DEF OneChain, Held, Active
  <2>6. host \notin {"boot", "postgres"}
    BY <1>1 DEF LinkSafe
  <2>7. QED BY <1>3, <2>4, <2>5, <2>6 DEF LinkSafe, SameLink
<1>4. QED BY <1>2, <1>3, LoadedEffect

LEMMA TalkSafe ==
  ASSUME LinkTyped, LinkSafe, NEW d \in Dials,
         SocketOpen(d) \/ Greet(d) \/ HubAnswer(d) \/ KeyPersisted(d) \/ CredentialSaved(d)
  PROVE  LinkSafe'
<1>1. /\ SameLink /\ link'.state \in {link.state, "connected"}
      /\ \A e \in Dials : \/ dial'[e].sock = dial[e].sock
                          \/ dial[e].sock = "connecting" /\ dial'[e].sock = "open"
  BY TalkEffect
<1>2. OneChain' /\ Held'
  BY <1>1 DEF LinkSafe, OneChain, Held, Active, SameLink
<1>3. Quiet => Quiet'
  BY <1>1 DEF Quiet, Live, SameLink
<1>4. QED BY <1>1, <1>2, <1>3 DEF LinkSafe, SameLink

LEMMA RefuseSafe ==
  ASSUME LinkTyped, LinkSafe, NEW d \in Dials, HubRefuse(d)
  PROVE  LinkSafe'
<1>1. Held BY DEF LinkSafe
<1>2. /\ host' = host /\ dial[d].sock = "open" /\ dial'[d].sock = "closing"
      /\ \A e \in Dials \ {d} : dial'[e].sock = dial[e].sock
      /\ link'.stopped /\ link'.ws = link.ws /\ link'.timer = link.timer
      /\ link'.state = link.state /\ link'.closed = link.closed
  BY <1>1, RefuseEffect
<1>3. ~Quiet
  BY <1>2 DEF Quiet, Live
<1>4. OneChain' /\ Held'
  BY <1>2 DEF LinkSafe, OneChain, Held, Active
<1>5. QED BY <1>2, <1>3, <1>4 DEF LinkSafe

LEMMA ClosedSafe ==
  ASSUME LinkTyped, LinkSafe, NEW d \in Dials, SocketClosed(d)
  PROVE  LinkSafe'
<1>1. /\ host' = host /\ dial'[d].sock = "closed"
      /\ dial[d].sock \in {"connecting", "open", "closing"}
      /\ \A e \in Dials \ {d} : dial'[e] = dial[e]
      /\ link'.stopped = link.stopped /\ link'.ws = link.ws
  BY ClosedEffect
<1>2. Active(d) /\ ~link.timer
  BY <1>1 DEF Active, LinkSafe, OneChain
<1>3. \A e \in Dials : dial'[e].sock \notin {"loading", "connecting", "open", "closing"}
  BY <1>1, <1>2 DEF Active, LinkSafe, OneChain
<1>4. OneChain' /\ Held'
  BY <1>3 DEF OneChain, Held, Active
<1>5. host \notin {"boot", "postgres"}
  BY <1>1 DEF LinkSafe
<1>6. CASE link.stopped
  <2>1. link'.state = "offline" /\ ~link'.timer /\ link'.stopped
    BY <1>1, <1>2, <1>6, ClosedEffect
  <2>2. Quiet' BY <1>3, <2>1 DEF Quiet, Live
  <2>3. QED BY <1>1, <1>4, <1>5, <2>1, <2>2 DEF LinkSafe
<1>7. CASE ~link.stopped
  <2>1. link'.state = "connecting" /\ link'.closed = link.closed
    BY <1>7, ClosedEffect
  <2>2. dial[d].sock # "closing" /\ Live(d)
    BY <1>1, <1>7 DEF LinkSafe, Held, Live
  <2>3. ~Quiet /\ link.closed = "no" /\ host \notin {"closing", "final", "done"}
    BY <2>2 DEF Quiet, LinkSafe
  <2>4. QED BY <1>1, <1>4, <1>5, <2>1, <2>3 DEF LinkSafe
<1>8. QED BY <1>6, <1>7

(* close(), and the two ways a dial is begun. *)
LEMMA ClosingSafe ==
  ASSUME LinkTyped, LinkSafe, NEW after \in HostPhase \ {"boot", "postgres"}, Closing(after)
  PROVE  LinkSafe'
<1>1. link'.stopped /\ ~link'.timer /\ link'.ws = link.ws
  BY DEF Closing, LinkTyped, Connection
<1>2. host' \notin {"boot", "postgres"}
  BY DEF Closing
<1>3. CASE link.ws # 0 /\ Live(link.ws)
  <2>1. link.ws \in Dials /\ dial' = [dial EXCEPT ![link.ws].sock = "closing"]
    BY <1>3 DEF Closing, LinkTyped, Connection, Dials
  <2>2. /\ dial'[link.ws].sock = "closing"
        /\ \A e \in Dials \ {link.ws} : dial'[e] = dial[e]
    BY <2>1 DEF LinkTyped, Socket
  <2>3. \A e \in Dials : Active(e)' => e = link.ws
    BY <1>3, <2>1, <2>2 DEF LinkSafe, OneChain, Active, Live
  <2>4. Quiet'
    BY <1>1, <2>2, <2>3 DEF Quiet, Live, Active
  <2>5. OneChain' /\ Held'
    BY <1>1, <2>1, <2>3 DEF OneChain, Held, Active
  <2>6. QED BY <1>1, <1>2, <2>4, <2>5 DEF LinkSafe
<1>4. CASE ~(link.ws # 0 /\ Live(link.ws))
  <2>1. \A d \in Dials : ~Live(d)
    BY <1>4 DEF LinkSafe, Held, Live, Dials
  <2>2. dial' = dial
    BY <1>4 DEF Closing
  <2>3. Quiet'
    BY <1>1, <2>1, <2>2 DEF Quiet, Live
  <2>4. OneChain' /\ Held'
    BY <1>1, <2>2 DEF LinkSafe, OneChain, Held, Active
  <2>5. QED BY <1>1, <1>2, <2>3, <2>4 DEF LinkSafe
<1>5. QED BY <1>3, <1>4

LEMMA ReconnectSafe ==
  ASSUME LinkTyped, LinkSafe, Reconnect
  PROVE  LinkSafe'
<1> DEFINE l == [link EXCEPT !.timer = FALSE]
<1>1. /\ link.timer /\ host' = host /\ NextDial(l)
      /\ \A d \in Dials : ~Active(d)
  BY DEF Reconnect, hostVars, LinkSafe, OneChain
<1>2. ~Quiet /\ link.closed = "no" /\ link.state # "offline"
      /\ host \notin {"boot", "postgres", "closing", "final", "done"}
  BY <1>1 DEF Quiet, LinkSafe
<1>3. /\ l.stopped = link.stopped /\ ~l.timer /\ l.ws = link.ws
      /\ l.closed = link.closed /\ l.state = link.state /\ l \in Connection
  BY DEF LinkTyped, Connection
<1> HIDE DEF l
<1>4. CASE link.stopped
  <2>1. link' = [l EXCEPT !.state = "offline"] /\ dial' = dial
    BY <1>1, <1>3, <1>4 DEF NextDial
  <2>2. link'.stopped /\ ~link'.timer /\ link'.closed = "no"
    BY <1>2, <1>3, <1>4, <2>1 DEF Connection
  <2>3. Quiet' /\ OneChain' /\ Held'
    BY <1>1, <2>1, <2>2 DEF Quiet, OneChain, Held, Live, Active
  <2>4. QED BY <1>1, <1>2, <2>2, <2>3 DEF LinkSafe
<1>5. CASE ~link.stopped
  <2>1. PICK d \in Dials : dial' = [dial EXCEPT ![d].sock = "loading"] /\ link' = l
    BY <1>1, <1>3, <1>5 DEF NextDial
  <2>2. dial'[d].sock = "loading" /\ \A e \in Dials \ {d} : dial'[e] = dial[e]
    BY <2>1 DEF LinkTyped, Socket
  <2>3. OneChain' /\ Held'
    BY <1>1, <1>3, <2>1, <2>2 DEF OneChain, Held, Active
  <2>4. QED BY <1>1, <1>2, <1>3, <2>1, <2>3 DEF LinkSafe
<1>6. QED BY <1>4, <1>5

LEMMA OpenSafe ==
  ASSUME LinkTyped, LinkSafe, OpenLink
  PROVE  LinkSafe'
<1> DEFINE l == [link EXCEPT !.state = "connecting", !.stopped = FALSE, !.opened = "pending"]
<1>1. /\ link.closed = "no" /\ ~link.timer /\ \A d \in Dials : dial[d].sock = "unused"
      /\ host' = "opening" /\ NextDial(l)
  BY DEF OpenLink, LinkSafe
<1>2. ~l.stopped /\ ~l.timer /\ l.closed = "no" /\ l.state = "connecting"
  BY <1>1 DEF LinkTyped, Connection
<1> HIDE DEF l
<1>3. PICK d \in Dials : dial' = [dial EXCEPT ![d].sock = "loading"] /\ link' = l
  BY <1>1, <1>2 DEF NextDial
<1>4. dial'[d].sock = "loading" /\ \A e \in Dials \ {d} : dial'[e].sock = "unused"
  BY <1>1, <1>3 DEF LinkTyped, Socket
<1>5. OneChain' /\ Held'
  BY <1>2, <1>3, <1>4 DEF OneChain, Held, Active
<1>6. QED BY <1>1, <1>2, <1>3, <1>5 DEF LinkSafe

(* The other steps leave the connection alone and move the host forward. *)
LEMMA HostSafe ==
  ASSUME LinkTyped, LinkSafe, UNCHANGED <<link, dial>>,
         \/ UNCHANGED host
         \/ StartPostgres \/ LinkOpened \/ LinkRefused \/ StartFailed \/ Stop \/ StopPostgres \/ Stopped
         \/ link.state = "offline" /\ host' = "closing"
  PROVE  LinkSafe'
<1>1. OneChain' /\ Held' /\ (Quiet' <=> Quiet)
  BY DEF LinkSafe, OneChain, Held, Active, Quiet, Live
<1>2. /\ host' \in {"boot", "postgres"} => host \in {"boot", "postgres"}
      /\ host' \in {"closing", "final", "done"} =>
           host \in {"closing", "final", "done"} \/ link.state = "offline"
  BY DEF StartPostgres, LinkOpened, LinkRefused, StartFailed, Stop, StopPostgres, Stopped
<1>3. QED BY <1>1, <1>2 DEF LinkSafe

(* The rest of the types: the host's point, the provider and the status queue. *)
LEMMA LinkTypedStep ==
  ASSUME LinkTyped, [Next]_vars
  PROVE  LinkTyped'
<1> USE DEF LinkTyped
<1>1. CASE \E d \in Dials : DialStep(d) \/ HubAnswer(d) \/ HubRefuse(d) \/ SocketClosed(d)
  <2>1. PICK d \in Dials : DialStep(d) \/ HubAnswer(d) \/ HubRefuse(d) \/ SocketClosed(d)
    BY <1>1
  <2>2. UNCHANGED <<host, pg, queue>>
    BY <2>1 DEF DialStep, HubAnswer, HubRefuse, SocketClosed, CredentialLoaded, SocketOpen,
                Greet, KeyPersisted, CredentialSaved, hostVars, statusVars
  <2>3. QED BY <2>1, <2>2, DialTyped
<1>2. CASE \E q \in Queries : Ask(q) \/ HubReply(q) \/ QueryTimeout(q)
  BY <1>2 DEF Ask, HubReply, QueryTimeout, hostVars, statusVars
<1>3. CASE Reconnect
  <2>1. [link EXCEPT !.timer = FALSE] \in Connection
    BY DEF Connection
  <2>2. NextDial([link EXCEPT !.timer = FALSE]) /\ UNCHANGED <<host, pg, queue>>
    BY <1>3 DEF Reconnect, hostVars, statusVars
  <2>3. QED BY <2>1, <2>2, NextDialTyped
<1>4. CASE OpenLink
  <2>1. [link EXCEPT !.state = "connecting", !.stopped = FALSE, !.opened = "pending"] \in Connection
    BY DEF Connection
  <2>2. /\ NextDial([link EXCEPT !.state = "connecting", !.stopped = FALSE, !.opened = "pending"])
        /\ host' = "opening" /\ UNCHANGED <<pg, queue>>
    BY <1>4 DEF OpenLink, statusVars
  <2>3. QED BY <2>1, <2>2, NextDialTyped DEF HostPhase
<1>5. CASE AbortStart \/ StopModules
  <2>1. UNCHANGED <<pg, queue>>
    BY <1>5 DEF AbortStart, StopModules, statusVars
  <2>2. \/ Closing("aborting") \/ Closing("closing")
        \/ host' = "closing" /\ UNCHANGED <<link, dial>>
    BY <1>5 DEF AbortStart, StopModules, linkVars
  <2>3. QED BY <2>1, <2>2, ClosingTyped DEF HostPhase
<1>6. CASE LinkOpened \/ LinkRefused \/ StartFailed \/ Stop \/ Stopped \/ Signal \/ StatusHeartbeat
  BY <1>6 DEF LinkOpened, LinkRefused, StartFailed, Stop, Stopped, Signal, StatusHeartbeat,
              WriteStatus, hostVars, linkVars, statusVars, HostPhase
<1>7. CASE StartPostgres \/ StopPostgres
  <2>1. host' \in HostPhase /\ UNCHANGED <<link, dial>>
    BY <1>7 DEF StartPostgres, StopPostgres, linkVars, HostPhase
  <2>2. queue' \in Seq({"host", "postgres", "heartbeat"})
    BY <1>7 DEF StartPostgres, StopPostgres, statusVars, WriteStatus
  <2>3. pg' \in Counting
    <3>1. \/ pg' = pg
          \/ pg' = [pg EXCEPT !.busy = TRUE, !.attempts = 1]
          \/ pg' = [pg EXCEPT !.stopped = TRUE, !.timer = FALSE]
      BY <1>7 DEF StartPostgres, StopPostgres
    <3>2. /\ [pg EXCEPT !.busy = TRUE, !.attempts = 1] \in Counting
          /\ [pg EXCEPT !.stopped = TRUE, !.timer = FALSE] \in Counting
      BY DEF Counting
    <3>3. QED BY <3>1, <3>2
  <2>4. QED BY <2>1, <2>2, <2>3
<1>8. CASE WriteStatusNow
  BY <1>8 DEF WriteStatusNow, hostVars, linkVars
<1>9. CASE PostgresRetry \/ PostgresAttempt(TRUE) \/ PostgresAttempt(FALSE)
  <2>1. UNCHANGED <<host, link, dial>>
    BY <1>9 DEF PostgresRetry, PostgresAttempt, hostVars, linkVars
  <2>2. queue' \in Seq({"host", "postgres", "heartbeat"})
    BY <1>9 DEF PostgresRetry, PostgresAttempt, statusVars, WriteStatus
  <2>3. pg' \in Counting
    <3>1. CASE PostgresRetry
      <4>1. pg' = [pg EXCEPT !.timer = FALSE, !.busy = TRUE, !.attempts = pg.attempts + 1]
        BY <3>1 DEF PostgresRetry
      <4>2. pg.attempts + 1 \in Nat
        BY DEF Counting
      <4>3. QED BY <4>1, <4>2 DEF Counting
    <3>2. ASSUME NEW ok \in BOOLEAN, PostgresAttempt(ok) PROVE pg' \in Counting
      <4> DEFINE phase == IF ok THEN "ready" ELSE "retrying"
                 timer == ~ok /\ ~pg.stopped /\ pg.attempts <= MaxAttempts
      <4>1. phase \in {"ready", "retrying"} /\ timer \in BOOLEAN
        OBVIOUS
      <4>2. pg' = [pg EXCEPT !.phase = phase, !.busy = FALSE, !.timer = timer]
        BY <3>2, Zenon DEF PostgresAttempt
      <4> HIDE DEF phase, timer
      <4>3. QED BY <4>1, <4>2 DEF Counting
    <3>3. QED BY <1>9, <3>1, <3>2
  <2>4. QED BY <2>1, <2>2, <2>3
<1>10. CASE UNCHANGED vars
  BY <1>10 DEF vars
<1>11. QED
  BY <1>1, <1>2, <1>3, <1>4, <1>5, <1>6, <1>7, <1>8, <1>9, <1>10 DEF Next, HostStep

LEMMA LinkInvInit == Init => LinkInv
<1> SUFFICES ASSUME Init PROVE LinkInv
  OBVIOUS
<1>1. link \in Connection /\ link.closed = "no" /\ ~link.timer
  BY HostLinkAssumption DEF Init, Connection
<1>2. dial \in [Dials -> Socket] /\ \A d \in Dials : dial[d].sock = "unused"
  BY DEF Init, Socket
<1>3. LinkTyped
  BY <1>1, <1>2 DEF Init, LinkTyped, HostPhase, Counting
<1>4. OneChain /\ Held /\ Quiet
  BY <1>1, <1>2 DEF OneChain, Held, Quiet, Active, Live
<1>5. QED BY <1>1, <1>2, <1>3, <1>4 DEF LinkInv, LinkSafe

LEMMA LinkInvStep == LinkInv /\ [Next]_vars => LinkInv'
<1> SUFFICES ASSUME LinkTyped, LinkSafe, [Next]_vars PROVE LinkSafe'
  BY LinkTypedStep DEF LinkInv
<1>1. CASE \E d \in Dials : DialStep(d) \/ HubAnswer(d) \/ HubRefuse(d) \/ SocketClosed(d)
  BY <1>1, LoadedSafe, TalkSafe, RefuseSafe, ClosedSafe DEF DialStep
<1>2. CASE Reconnect \/ OpenLink
  BY <1>2, ReconnectSafe, OpenSafe
<1>3. CASE AbortStart
  BY <1>3, ClosingSafe DEF AbortStart, HostPhase
<1>4. CASE StopModules
  <2>1. CASE link.state # "offline"
    BY <1>4, <2>1, ClosingSafe DEF StopModules, HostPhase
  <2>2. CASE link.state = "offline"
    BY <1>4, <2>2, HostSafe DEF StopModules, linkVars
  <2>3. QED BY <2>1, <2>2
<1>5. CASE StartPostgres \/ LinkOpened \/ LinkRefused \/ StartFailed \/ Stop \/ StopPostgres \/ Stopped
  <2>1. UNCHANGED <<link, dial>>
    BY <1>5 DEF StartPostgres, LinkOpened, LinkRefused, StartFailed, Stop, StopPostgres, Stopped,
                linkVars
  <2>2. QED BY <1>5, <2>1, HostSafe
<1>6. CASE \/ Signal \/ WriteStatusNow \/ StatusHeartbeat \/ PostgresRetry
           \/ PostgresAttempt(TRUE) \/ PostgresAttempt(FALSE) \/ UNCHANGED vars
           \/ \E q \in Queries : Ask(q) \/ HubReply(q) \/ QueryTimeout(q)
  <2>1. UNCHANGED <<link, dial, host>>
    BY <1>6 DEF Signal, WriteStatusNow, StatusHeartbeat, PostgresRetry, PostgresAttempt, vars,
                Ask, HubReply, QueryTimeout, hostVars, linkVars
  <2>2. QED BY <2>1, HostSafe
<1>7. QED
  BY <1>1, <1>2, <1>3, <1>4, <1>5, <1>6 DEF Next, HostStep

(* connection.ts, close(): once it has told its caller that the connection is
   closed, and from the host's last status write on, no socket is open or being
   opened and no timer will open one - although a reconnect may be reading the
   credential at the very moment close() comes. *)
THEOREM ClosedForGoodHolds == Spec => []ClosedForGood
<1>1. LinkInv => ClosedForGood
  BY DEF LinkInv, LinkSafe, Quiet, ClosedForGood
<1>2. QED
  BY <1>1, LinkInvInit, LinkInvStep, PTL DEF Spec

(* What the stopping host knows of the queue of status writes: its own is the
   last one, and when it has been written nothing is left. *)
StatusInv ==
  /\ host = "final" => pg.stopped /\ (queue = << >> \/ queue[Len(queue)] = "host")
  /\ host = "done" => pg.stopped /\ queue = << >>

LEMMA StatusInvStep == LinkTyped /\ StatusInv /\ [Next]_vars => StatusInv'
<1> SUFFICES ASSUME LinkTyped, StatusInv, [Next]_vars PROVE StatusInv'
  OBVIOUS
<1> USE DEF LinkTyped
<1>1. CASE StopPostgres
  BY <1>1 DEF StopPostgres, WriteStatus, StatusInv, Counting
<1>2. CASE Stopped
  <2>1. queue = << >>
    BY <1>2 DEF Stopped, Written, StatusInv
  <2>2. QED BY <1>2, <2>1 DEF Stopped, StatusInv, statusVars
<1>3. CASE WriteStatusNow
  BY <1>3 DEF WriteStatusNow, StatusInv, hostVars
<1>4. CASE PostgresRetry \/ PostgresAttempt(TRUE) \/ PostgresAttempt(FALSE)
  <2>1. host' = host /\ pg'.stopped = pg.stopped
    BY <1>4 DEF PostgresRetry, PostgresAttempt, hostVars, Counting
  <2>2. pg.stopped => queue' = queue
    BY <1>4 DEF PostgresRetry, PostgresAttempt, statusVars, Emits
  <2>3. QED BY <2>1, <2>2 DEF StatusInv
<1>5. CASE \/ StartPostgres \/ OpenLink \/ LinkOpened \/ LinkRefused \/ AbortStart \/ StartFailed
           \/ Stop \/ StopModules
  <2>1. host' \notin {"final", "done"}
    BY <1>5 DEF StartPostgres, OpenLink, LinkOpened, LinkRefused, AbortStart, StartFailed, Stop,
                StopModules, Closing
  <2>2. QED BY <2>1 DEF StatusInv
<1>6. CASE StatusHeartbeat
  BY <1>6 DEF StatusHeartbeat, StatusInv, hostVars
<1>7. CASE \/ Signal \/ Reconnect \/ UNCHANGED vars
           \/ \E d \in Dials : DialStep(d) \/ HubAnswer(d) \/ HubRefuse(d) \/ SocketClosed(d)
           \/ \E q \in Queries : Ask(q) \/ HubReply(q) \/ QueryTimeout(q)
  <2>1. UNCHANGED <<host, pg, queue>>
    BY <1>7 DEF Signal, Reconnect, vars, DialStep, HubAnswer, HubRefuse, SocketClosed,
                CredentialLoaded, SocketOpen, Greet, KeyPersisted, CredentialSaved,
                Ask, HubReply, QueryTimeout, hostVars, statusVars
  <2>2. QED BY <2>1 DEF StatusInv
<1>8. QED
  BY <1>1, <1>2, <1>3, <1>4, <1>5, <1>6, <1>7 DEF Next, HostStep

(* host/runtime.ts, stop(): the "stopped" snapshot is the last one written; no
   late flip of the provider's phase and no queued write comes after it. *)
THEOREM FinalStatusHolds == Spec => FinalStatusKept
<1>1. Init => LinkTyped /\ StatusInv
  BY LinkInvInit DEF LinkInv, Init, StatusInv
<1>2. LinkTyped /\ StatusInv /\ [Next]_vars => (LinkTyped /\ StatusInv)'
  BY LinkTypedStep, StatusInvStep
<1>3. LinkTyped /\ StatusInv /\ [Next]_vars => [host = "done" => UNCHANGED status]_vars
  <2> SUFFICES ASSUME StatusInv, [Next]_vars, host = "done" PROVE UNCHANGED status
    OBVIOUS
  <2>1. queue = << >>
    BY DEF StatusInv
  <2>2. CASE HostStep
    BY <2>1, <2>2 DEF HostStep, StartPostgres, OpenLink, LinkOpened, LinkRefused, AbortStart,
                      StartFailed, Stop, StopModules, StopPostgres, Stopped, statusVars
  <2>3. CASE \/ Signal \/ WriteStatusNow \/ StatusHeartbeat \/ Reconnect \/ UNCHANGED vars
    BY <2>1, <2>3 DEF Signal, WriteStatusNow, StatusHeartbeat, Reconnect, vars, statusVars
  <2>4. CASE PostgresRetry \/ PostgresAttempt(TRUE) \/ PostgresAttempt(FALSE)
    BY <2>4 DEF PostgresRetry, PostgresAttempt, statusVars
  <2>5. CASE \/ \E d \in Dials : DialStep(d) \/ HubAnswer(d) \/ HubRefuse(d) \/ SocketClosed(d)
             \/ \E q \in Queries : Ask(q) \/ HubReply(q) \/ QueryTimeout(q)
    BY <2>5 DEF DialStep, HubAnswer, HubRefuse, SocketClosed, CredentialLoaded, SocketOpen,
                Greet, KeyPersisted, CredentialSaved, Ask, HubReply, QueryTimeout, statusVars
  <2>6. QED BY <2>2, <2>3, <2>4, <2>5 DEF Next
<1>4. QED
  BY <1>1, <1>2, <1>3, PTL DEF Spec, FinalStatusKept
=============================================================================

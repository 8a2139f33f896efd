---------------------------- MODULE ServicesProofs -----------------------------
(* Proofs about WebsocketHub, for every set of clients, every capacity of the    *)
(* channels, and every number of broadcasts and pings, about HostThrottle, for   *)
(* any callers, slots, times and faults, and about ReleaseChecker, for every     *)
(* number of page requests, releases and times that the answer grows old.  The   *)
(* three share nothing.                                                          *)
EXTENDS WebsocketHub, HostThrottle, ReleaseChecker, FiniteSetTheorems, SequenceTheorems, TLAPS

--------------------------------------------------------------------------------
(***************************************************************************)
(* WebsocketHub.                                                           *)
(***************************************************************************)
\* Only a connection that was opened is in the map or has a closed channel.
Opened == \A c \in members \union closed : conn[c] # "none"
\* What waits was accepted.
Waiting == Len(broadcast) <= accepted
HubInv == HubTypeOK /\ MembersAreOpen /\ Opened /\ Waiting

--------------------------------------------------------------------------------
LEMMA InitHub == HubInit => HubInv
BY HubAssumption DEF HubInit, HubInv, HubTypeOK, MembersAreOpen, Opened, Waiting

\* What is put into the channels are messages.
LEMMA OfferedIs ==
    ASSUME HubInv, NEW m \in Nat
    PROVE  Offered(m) \in [Clients -> Seq(Nat)]
BY DEF Offered, HubInv, HubTypeOK

LEMMA HubWorks ==
    ASSUME HubInv, Broadcast \/ FanOut \/ Tick
    PROVE  HubInv'
<1>1. CASE Broadcast
  <2>1. accepted + 1 \in Nat /\ broadcast \in Seq(Nat)
    BY DEF HubInv, HubTypeOK
  <2>2. /\ broadcast' \in Seq(Nat) /\ Len(broadcast') = Len(broadcast) + 1
        /\ Len(broadcast) < QueueCap
    BY <1>1, <2>1 DEF Broadcast
  <2>3. Len(broadcast') <= QueueCap
    BY <2>1, <2>2, HubAssumption
  <2>5. Waiting'
    <3>1. Len(broadcast) <= accepted /\ Len(broadcast) \in Nat /\ accepted \in Nat
      BY <2>1 DEF HubInv, HubTypeOK, Waiting
    <3>2. accepted' = accepted + 1
      BY <1>1 DEF Broadcast
    <3> QED
      BY <2>2, <3>1, <3>2 DEF Waiting
  <2>4. HubTypeOK'
    BY <1>1, <2>1, <2>2, <2>3 DEF Broadcast, HubInv, HubTypeOK
  <2> QED
    BY <1>1, <2>4, <2>5 DEF Broadcast, HubInv, MembersAreOpen, Opened
<1>2. CASE FanOut
  <2>1. broadcast \in Seq(Nat) /\ broadcast # <<>> /\ Len(broadcast) <= QueueCap
    BY <1>2 DEF FanOut, HubInv, HubTypeOK
  <2>2. /\ Head(broadcast) \in Nat /\ broadcast' \in Seq(Nat)
        /\ Len(broadcast') = Len(broadcast) - 1
    BY <1>2, <2>1 DEF FanOut
  <2>3. Len(broadcast') <= QueueCap
    BY <2>1, <2>2, HubAssumption
  <2>4. send' \in [Clients -> Seq(Nat)]
    BY <1>2, <2>2, OfferedIs DEF FanOut
  <2>5. /\ members' \subseteq members /\ closed' \subseteq closed \union members
        /\ members' \cap closed' = {} /\ conn' = conn
    BY <1>2 DEF FanOut, HubInv, MembersAreOpen
  <2>6. HubTypeOK'
    BY <1>2, <2>2, <2>3, <2>4, <2>5 DEF FanOut, HubInv, HubTypeOK
  <2>7. Waiting'
    BY <1>2, <2>1, <2>2 DEF FanOut, HubInv, HubTypeOK, Waiting
  <2> QED
    BY <2>5, <2>6, <2>7 DEF HubInv, MembersAreOpen, Opened
<1>3. CASE Tick
  <2>1. send' \in [Clients -> Seq(Nat)]
    BY <1>3, OfferedIs DEF Tick, Ping
  <2>2. HubTypeOK'
    BY <1>3, <2>1 DEF Tick, HubInv, HubTypeOK
  <2> QED
    BY <1>3, <2>2 DEF Tick, HubInv, MembersAreOpen, Opened, Waiting
<1> QED
  BY <1>1, <1>2, <1>3

\* A step of a connection or of one of its goroutines.
LEMMA ClientWorks ==
    ASSUME HubInv, NEW c \in Clients,
           Register(c) \/ StartPumps(c) \/ Lose(c) \/ ReaderStep(c) \/ WriterStep(c)
    PROVE  HubInv'
<1>1. CASE Register(c)
  <2>1. FannedOut \in Nat
    <3>1. Len(broadcast) \in Nat /\ accepted \in Nat /\ Len(broadcast) <= accepted
      BY DEF HubInv, HubTypeOK, Waiting
    <3> QED
      BY <3>1 DEF FannedOut
  <2> QED
    BY <1>1, <2>1 DEF Register, HubInv, HubTypeOK, MembersAreOpen, Opened, Waiting
<1>2. CASE StartPumps(c) \/ Lose(c) \/ ReadFails(c)
  BY <1>2 DEF StartPumps, Lose, ReadFails, HubInv, HubTypeOK, MembersAreOpen, Opened, Waiting
<1>3. CASE Unregister(c)
  BY <1>3 DEF Unregister, HubInv, HubTypeOK, MembersAreOpen, Opened, Waiting
<1>4. CASE Write(c)
  <2>1. send[c] \in Seq(Nat) /\ send[c] # <<>> /\ received[c] \in Seq(Nat)
    BY <1>4 DEF Write, HubInv, HubTypeOK
  <2>2. /\ Tail(send[c]) \in Seq(Nat) /\ Head(send[c]) \in Nat
        /\ Append(received[c], Head(send[c])) \in Seq(Nat)
    BY <2>1
  <2>3. send' \in [Clients -> Seq(Nat)] /\ received' \in [Clients -> Seq(Nat)]
    BY <1>4, <2>2 DEF Write, HubInv, HubTypeOK
  <2>4. HubTypeOK'
    BY <1>4, <2>3 DEF Write, HubInv, HubTypeOK
  <2> QED
    BY <1>4, <2>4 DEF Write, HubInv, MembersAreOpen, Opened, Waiting
<1>5. CASE WriteFails(c)
  <2>1. send[c] \in Seq(Nat) /\ send[c] # <<>>
    BY <1>5 DEF WriteFails, HubInv, HubTypeOK
  <2>2. send' \in [Clients -> Seq(Nat)]
    BY <1>5, <2>1 DEF WriteFails, HubInv, HubTypeOK
  <2>3. HubTypeOK'
    BY <1>5, <2>2 DEF WriteFails, HubInv, HubTypeOK
  <2> QED
    BY <1>5, <2>3 DEF WriteFails, HubInv, HubTypeOK, MembersAreOpen, Opened, Waiting
<1>6. CASE WriterEnds(c) \/ WriterPingFails(c)
  BY <1>6 DEF WriterEnds, WriterPingFails, HubInv, HubTypeOK, MembersAreOpen, Opened, Waiting
<1> QED
  BY <1>1, <1>2, <1>3, <1>4, <1>5, <1>6 DEF ReaderStep, WriterStep

LEMMA AlwaysHub == HubSpec => []HubInv
<1>1. HubInit => HubInv
  BY InitHub
<1>2. HubInv /\ [HubNext]_hubVars => HubInv'
  <2> SUFFICES ASSUME HubInv, [HubNext]_hubVars PROVE HubInv'
    OBVIOUS
  <2>1. CASE UNCHANGED hubVars
    BY <2>1 DEF hubVars, HubInv, HubTypeOK, MembersAreOpen, Opened, Waiting
  <2> QED
    BY <2>1, HubWorks, ClientWorks DEF HubNext
<1> QED
  BY <1>1, <1>2, PTL DEF HubSpec

\* The variables keep their types, and the queue of the hub its capacity.
THEOREM HubTypeCorrect == HubSpec => []HubTypeOK
<1>1. HubInv => HubTypeOK
  BY DEF HubInv
<1> QED
  BY <1>1, AlwaysHub, PTL

\* The hub never sends to a closed channel, which would end the server: a client
\* leaves the map with the step that closes its channel, and never comes back.
THEOREM NoSendOnClosed == HubSpec => []MembersAreOpen
<1>1. HubInv => MembersAreOpen
  BY DEF HubInv
<1> QED
  BY <1>1, AlwaysHub, PTL

\* Queued events are numbered on from those fanned out, and a connection that was not
\* opened has been sent nothing; the two goroutines of a client start together.
Numbered == \A i \in DOMAIN broadcast : broadcast[i] = FannedOut + i
Unopened == \A c \in Clients : conn[c] = "none" => send[c] = <<>> /\ received[c] = <<>>
Unstarted == \A c \in Clients : reader[c] = "none" => writer[c] = "none"
GapInv == HubInv /\ Numbered /\ Unopened /\ Unstarted /\ NoGap

\* Facts about what a client is sent: an appended ping or next event leaves no gap, and
\* the writer takes from one end of the channel what it adds to the connection.
LEMMA AppendKeepsOrder ==
    ASSUME NEW s \in Seq(Nat), NEW j \in Nat, NEW n \in Nat, j <= n, Gapless(s, j, n)
    PROVE  Gapless(Append(s, Ping), j, n) /\ Gapless(Append(s, n + 1), j, n + 1)
<1>1. ASSUME NEW m \in Nat
      PROVE  /\ DOMAIN Append(s, m) = DOMAIN s \union {Len(s) + 1}
             /\ \A i \in DOMAIN s : Append(s, m)[i] = s[i] /\ s[i] \in Nat /\ i < Len(s) + 1
             /\ Append(s, m)[Len(s) + 1] = m
             /\ ToSet(Append(s, m)) = ToSet(s) \union {m}
  <2>1. /\ DOMAIN Append(s, m) = DOMAIN s \union {Len(s) + 1}
        /\ \A i \in DOMAIN s : Append(s, m)[i] = s[i] /\ s[i] \in Nat /\ i < Len(s) + 1
        /\ Append(s, m)[Len(s) + 1] = m
    OBVIOUS
  <2> QED
    BY <2>1 DEF ToSet
<1>2. Gapless(Append(s, Ping), j, n)
  BY <1>1 DEF Gapless, Ping
<1>3. Gapless(Append(s, n + 1), j, n + 1)
  <2>1. ToSet(Append(s, n + 1)) \ {Ping} = (j + 1)..(n + 1)
    BY <1>1 DEF Gapless, Ping
  <2>2. \A i \in DOMAIN s : s[i] # Ping => s[i] \in (j + 1)..n
    BY DEF Gapless, ToSet
  <2>3. \A a \in DOMAIN s : s[a] # Ping => s[a] < n + 1
    BY <2>2
  <2> QED
    BY <1>1, <2>1, <2>3 DEF Gapless
<1> QED
  BY <1>2, <1>3

LEMMA SentGrows ==
    ASSUME NEW r \in Seq(Nat), NEW s \in Seq(Nat), NEW m \in Nat
    PROVE  r \o Append(s, m) = Append(r \o s, m) /\ r \o s \in Seq(Nat)
OBVIOUS

LEMMA SentMoves ==
    ASSUME NEW r \in Seq(Nat), NEW s \in Seq(Nat), s # <<>>
    PROVE  Append(r, Head(s)) \o Tail(s) = r \o s
OBVIOUS

LEMMA GapHub ==
    ASSUME GapInv, Broadcast \/ FanOut \/ Tick
    PROVE  GapInv'
<1>0. HubInv'
  BY HubWorks DEF GapInv
<1>1. /\ broadcast \in Seq(Nat) /\ accepted \in Nat /\ Len(broadcast) <= accepted
      /\ send \in [Clients -> Seq(Nat)] /\ received \in [Clients -> Seq(Nat)]
      /\ joined \in [Clients -> Nat]
  BY DEF GapInv, HubInv, HubTypeOK, Waiting
<1>2. FannedOut \in Nat
  BY <1>1 DEF FannedOut
<1>3. Unstarted'
  BY DEF Broadcast, FanOut, Tick, GapInv, Unstarted
<1>4. CASE Broadcast
  <2>1. /\ broadcast' = Append(broadcast, accepted + 1) /\ accepted' = accepted + 1
        /\ UNCHANGED <<members, send, conn, writer, joined, received>>
    BY <1>4 DEF Broadcast
  <2>2. FannedOut' = FannedOut
    BY <1>1, <2>1 DEF FannedOut
  <2>3. Numbered'
    BY <1>1, <2>1, <2>2 DEF GapInv, Numbered, FannedOut
  <2> QED
    BY <1>0, <1>3, <2>1, <2>2, <2>3 DEF GapInv, Unopened, NoGap, Sent
<1>5. CASE FanOut
  <2>1. /\ broadcast # <<>> /\ broadcast' = Tail(broadcast) /\ send' = Offered(Head(broadcast))
        /\ members' = {c \in members : HasRoom(c)}
        /\ UNCHANGED <<accepted, conn, writer, joined, received>>
    BY <1>5 DEF FanOut
  <2>2. Head(broadcast) = FannedOut + 1 /\ FannedOut' = FannedOut + 1
    BY <1>1, <2>1 DEF GapInv, Numbered, FannedOut
  <2>3. Numbered'
    BY <1>1, <2>1, <2>2 DEF GapInv, Numbered, FannedOut
  <2>4. Unopened'
    BY <1>1, <2>1 DEF GapInv, HubInv, Unopened, Opened, Offered
  <2>5. ASSUME NEW c \in Clients, writer'[c] # "done"
        PROVE  \E n \in joined'[c]..FannedOut' :
                   /\ Gapless(Sent(c)', joined'[c], n)
                   /\ c \in members' => n = FannedOut'
    <3>1. PICK n \in joined[c]..FannedOut : /\ Gapless(Sent(c), joined[c], n)
                                            /\ c \in members => n = FannedOut
      BY <2>1, <2>5 DEF GapInv, NoGap
    <3>2. CASE c \in members /\ HasRoom(c)
      <4>1. Sent(c)' = Append(Sent(c), n + 1) /\ Sent(c) \in Seq(Nat)
        <5>1. send'[c] = Append(send[c], n + 1) /\ received'[c] = received[c] /\ n + 1 \in Nat
          BY <1>1, <1>2, <2>1, <2>2, <3>1, <3>2 DEF Offered
        <5>2. send[c] \in Seq(Nat) /\ received[c] \in Seq(Nat)
          BY <1>1
        <5> QED
          BY <5>1, <5>2, SentGrows DEF Sent
      <4>2. Gapless(Sent(c)', joined[c], n + 1)
        BY <1>1, <1>2, <3>1, <4>1, AppendKeepsOrder
      <4> QED
        BY <1>1, <1>2, <2>1, <2>2, <3>1, <3>2, <4>2
    <3>3. CASE ~(c \in members /\ HasRoom(c))
      <4>1. Sent(c)' = Sent(c) /\ c \notin members'
        BY <1>1, <2>1, <3>3 DEF Sent, Offered
      <4> QED
        BY <1>1, <1>2, <2>1, <2>2, <3>1, <4>1
    <3> QED
      BY <3>2, <3>3
  <2> QED
    BY <1>0, <1>3, <2>3, <2>4, <2>5 DEF GapInv, NoGap
<1>6. CASE Tick
  <2>1. /\ send' = Offered(Ping)
        /\ UNCHANGED <<broadcast, accepted, members, conn, writer, joined, received>>
    BY <1>6 DEF Tick
  <2>2. FannedOut' = FannedOut /\ Numbered'
    BY <2>1 DEF FannedOut, GapInv, Numbered
  <2>4. Unopened'
    BY <1>1, <2>1 DEF GapInv, HubInv, Unopened, Opened, Offered
  <2>5. ASSUME NEW c \in Clients, writer'[c] # "done"
        PROVE  \E n \in joined'[c]..FannedOut' :
                   /\ Gapless(Sent(c)', joined'[c], n)
                   /\ c \in members' => n = FannedOut'
    <3>1. PICK n \in joined[c]..FannedOut : /\ Gapless(Sent(c), joined[c], n)
                                            /\ c \in members => n = FannedOut
      BY <2>1, <2>5 DEF GapInv, NoGap
    <3>2. Sent(c) \in Seq(Nat) /\ Sent(c)' \in {Sent(c), Append(Sent(c), Ping)}
      <4>1. send'[c] \in {send[c], Append(send[c], Ping)} /\ received'[c] = received[c]
        BY <1>1, <2>1 DEF Offered
      <4>2. send[c] \in Seq(Nat) /\ received[c] \in Seq(Nat) /\ Ping \in Nat
        BY <1>1 DEF Ping
      <4> QED
        BY <4>1, <4>2, SentGrows DEF Sent
    <3>3. Gapless(Sent(c)', joined[c], n)
      <4>1. joined[c] \in Nat /\ n \in Nat /\ joined[c] <= n
        BY <1>1, <1>2, <3>1
      <4> QED
        BY <3>1, <3>2, <4>1, AppendKeepsOrder
    <3> QED
      BY <2>1, <2>2, <3>1, <3>3
  <2> QED
    BY <1>0, <1>3, <2>2, <2>4, <2>5 DEF GapInv, NoGap
<1> QED
  BY <1>4, <1>5, <1>6

LEMMA GapClient ==
    ASSUME GapInv, NEW c \in Clients,
           Register(c) \/ StartPumps(c) \/ Lose(c) \/ ReaderStep(c) \/ WriterStep(c)
    PROVE  GapInv'
<1>0. HubInv'
  BY ClientWorks DEF GapInv
<1>1. /\ broadcast \in Seq(Nat) /\ accepted \in Nat /\ Len(broadcast) <= accepted
      /\ send \in [Clients -> Seq(Nat)] /\ received \in [Clients -> Seq(Nat)]
      /\ joined \in [Clients -> Nat]
  BY DEF GapInv, HubInv, HubTypeOK, Waiting
<1>2. FannedOut \in Nat
  BY <1>1 DEF FannedOut
<1>3. UNCHANGED <<broadcast, accepted>>
  BY DEF Register, StartPumps, Lose, ReaderStep, ReadFails, Unregister, WriterStep, Write,
     WriteFails, WriterEnds, WriterPingFails
<1>4. FannedOut' = FannedOut /\ Numbered'
  BY <1>3 DEF FannedOut, GapInv, Numbered
<1>5. Unopened'
  <2>1. ASSUME NEW d \in Clients, conn'[d] = "none"
        PROVE  conn[d] = "none" /\ send'[d] = send[d] /\ received'[d] = received[d]
    <3>1. conn[d] = "none"
      BY <2>1, <1>0 DEF Register, StartPumps, Lose, ReaderStep, ReadFails, Unregister, WriterStep,
         Write, WriteFails, WriterEnds, WriterPingFails, GapInv, HubInv, HubTypeOK
    <3>2. send[d] = <<>>
      BY <3>1 DEF GapInv, Unopened
    <3> QED
      BY <1>1, <3>1, <3>2 DEF Register, StartPumps, Lose, ReaderStep, ReadFails, Unregister, WriterStep,
         Write, WriteFails, WriterEnds, WriterPingFails
  <2> QED
    BY <2>1 DEF GapInv, Unopened
<1>6. ASSUME NEW d \in Clients, writer'[d] # "done", Sent(d)' = Sent(d), writer[d] # "done",
             joined'[d] = joined[d], d \in members' => d \in members
      PROVE  \E n \in joined'[d]..FannedOut' :
                   /\ Gapless(Sent(d)', joined'[d], n)
                   /\ d \in members' => n = FannedOut'
  BY <1>4, <1>6 DEF GapInv, NoGap
<1>7. ASSUME NEW d \in Clients, writer'[d] # "done"
      PROVE  \E n \in joined'[d]..FannedOut' :
                   /\ Gapless(Sent(d)', joined'[d], n)
                   /\ d \in members' => n = FannedOut'
  <2>1. CASE Register(c)
    <3>1. CASE d = c
      <4>1. Sent(d)' = <<>> /\ joined'[d] = FannedOut
        BY <1>1, <2>1, <3>1 DEF Register, GapInv, Unopened, Sent
      <4>2. Gapless(<<>>, FannedOut, FannedOut)
        BY <1>2 DEF Gapless, ToSet
      <4> QED
        BY <1>2, <1>4, <4>1, <4>2
    <3>2. CASE d # c
      BY <1>1, <1>6, <1>7, <2>1, <3>2 DEF Register, Sent
    <3> QED
      BY <3>1, <3>2
  <2>2. CASE StartPumps(c) \/ Lose(c) \/ ReadFails(c) \/ Unregister(c)
    <3>1. UNCHANGED <<send, received, joined>> /\ members' \subseteq members
      BY <2>2 DEF StartPumps, Lose, ReadFails, Unregister
    <3>2. Sent(d)' = Sent(d)
      BY <3>1 DEF Sent
    <3>3. CASE writer[d] # "done"
      BY <1>6, <1>7, <3>1, <3>2, <3>3
    <3>4. CASE writer[d] = "done"
      <4>1. StartPumps(c) /\ d = c
        BY <1>7, <2>2, <3>4 DEF StartPumps, Lose, ReadFails, Unregister, GapInv, HubInv, HubTypeOK
      <4> QED
        BY <3>4, <4>1 DEF StartPumps, GapInv, Unstarted
    <3> QED
      BY <3>3, <3>4
  <2>3. CASE Write(c)
    <3>1. CASE d = c
      <4>1. send[c] # <<>> /\ send'[c] = Tail(send[c]) /\ received'[c] = Append(received[c], Head(send[c]))
            /\ UNCHANGED <<members, writer, joined>>
        BY <1>1, <2>3 DEF Write
      <4>2. Sent(d)' = Sent(d)
        BY <1>1, <3>1, <4>1, SentMoves DEF Sent
      <4> QED
        BY <1>6, <1>7, <4>1, <4>2
    <3>2. CASE d # c
      BY <1>1, <1>6, <1>7, <2>3, <3>2 DEF Write, Sent
    <3> QED
      BY <3>1, <3>2
  <2>4. CASE WriteFails(c) \/ WriterEnds(c) \/ WriterPingFails(c)
    <3>1. d # c
      BY <1>7, <2>4 DEF WriteFails, WriterEnds, WriterPingFails, GapInv, HubInv, HubTypeOK
    <3> QED
      <4>1. /\ send'[d] = send[d] /\ writer'[d] = writer[d] /\ UNCHANGED <<received, joined, members>>
        BY <2>4, <3>1 DEF WriteFails, WriterEnds, WriterPingFails, GapInv, HubInv, HubTypeOK
      <4> QED
        BY <1>6, <1>7, <4>1 DEF Sent
  <2> QED
    BY <2>1, <2>2, <2>3, <2>4 DEF ReaderStep, WriterStep
<1>8. Unstarted'
  BY DEF Register, StartPumps, Lose, ReaderStep, ReadFails, Unregister, WriterStep, Write,
     WriteFails, WriterEnds, WriterPingFails, GapInv, Unstarted, HubInv, HubTypeOK
<1> QED
  BY <1>0, <1>4, <1>5, <1>7, <1>8 DEF GapInv, NoGap

\* NoGap, for every number of clients and every capacity of their channels: whoever is
\* still served has every event since it joined, in order.
THEOREM NobodySkips == HubSpec => []NoGap
<1>1. HubInit => GapInv
  <2> SUFFICES ASSUME HubInit PROVE GapInv
    OBVIOUS
  <2>1. Numbered /\ Unopened /\ Unstarted
    BY DEF HubInit, Numbered, Unopened, Unstarted
  <2>2. ASSUME NEW c \in Clients
        PROVE  Sent(c) = <<>> /\ joined[c] = 0 /\ c \notin members /\ FannedOut = 0
    <3>1. send[c] = <<>> /\ received[c] = <<>> /\ broadcast = <<>> /\ accepted = 0
      BY DEF HubInit
    <3>2. <<>> \o <<>> = <<>> /\ Len(<<>>) = 0
      OBVIOUS
    <3> QED
      <4>1. FannedOut = 0
        <5>1. Len(broadcast) = 0 /\ accepted = 0
          BY <3>1, <3>2
        <5>2. accepted \in Nat /\ Len(broadcast) \in Nat
          BY <5>1
        <5> QED
          BY <5>1, <5>2 DEF FannedOut
      <4>2. Sent(c) = <<>>
        BY <3>1, <3>2 DEF Sent
      <4> QED
        BY <4>1, <4>2 DEF HubInit
  <2>3. Gapless(<<>>, 0, 0)
    BY DEF Gapless, ToSet
  <2> QED
    BY <2>1, <2>2, <2>3, InitHub DEF GapInv, NoGap
<1>2. GapInv /\ [HubNext]_hubVars => GapInv'
  <2> SUFFICES ASSUME GapInv, [HubNext]_hubVars PROVE GapInv'
    OBVIOUS
  <2>1. CASE UNCHANGED hubVars
    BY <2>1 DEF hubVars, GapInv, HubInv, HubTypeOK, MembersAreOpen, Opened, Waiting, Numbered,
       Unopened, Unstarted, NoGap, Sent, FannedOut
  <2> QED
    BY <2>1, GapHub, GapClient DEF HubNext
<1>3. GapInv => NoGap
  BY DEF GapInv
<1> QED
  BY <1>1, <1>2, <1>3, PTL DEF HubSpec

--------------------------------------------------------------------------------
(***************************************************************************)
(* ReleaseChecker.                                                         *)
(***************************************************************************)
\* One request asks at a time, and it is the one that is known to.
OneAsks == \A r \in Requests : rpc[r] \in {"asking", "storing"} <=> inFlight = r

\* The one that asks found what is still cached.  An answer is of no release if it is an
\* error, and else of one that GitHub has shown since, or the one that is cached.
Fresh ==
    /\ published \in since
    /\ ~hasCache => cached = NoInfo
    /\ \A r \in Requests :
          /\ rpc[r] \in {"asking", "storing"} => previous[r] = [info |-> cached, had |-> hasCache]
          /\ rpc[r] = "storing" =>
                IF fetched[r].info.error THEN fetched[r].info.latest = 0
                ELSE fetched[r].info.latest \in since \cup {cached.latest}
RelInv == ReleaseTypeOK /\ OneAsks /\ Fresh

--------------------------------------------------------------------------------
LEMMA InitRel == ReleaseInit => RelInv
<1> SUFFICES ASSUME ReleaseInit PROVE RelInv
  OBVIOUS
<1>1. 0 \in 0..MaxReleases /\ 0 \in Floor..Expired
  BY ReleaseAssumption DEF Floor, Expired
<1>2. NoInfo \in Answers /\ NoReply \in Replies
  BY <1>1 DEF NoInfo, Answers, NoReply, Replies
<1>3. ReleaseTypeOK
  BY <1>1, <1>2 DEF ReleaseInit, ReleaseTypeOK, Floor
<1>4. OneAsks
  BY ReleaseAssumption DEF ReleaseInit, OneAsks
<1>5. Fresh
  BY <1>2 DEF ReleaseInit, Fresh
<1> QED
  BY <1>3, <1>4, <1>5 DEF RelInv

LEMMA AskKeeps ==
    ASSUME RelInv, NEW r \in Requests, NEW force \in BOOLEAN,
           CheckCached(r, force) \/ CheckWaits(r, force) \/ CheckAsks(r, force) \/ LeaveWaiting(r)
    PROVE  RelInv'
<1>1. CASE CheckCached(r, force)
  BY <1>1 DEF CheckCached, relVars, github, RelInv, ReleaseTypeOK, OneAsks, Fresh
<1>2. CASE CheckWaits(r, force)
  BY <1>2 DEF CheckWaits, github, RelInv, ReleaseTypeOK, OneAsks, Fresh
<1>3. CASE CheckAsks(r, force)
  <2>1. ReleaseTypeOK'
    BY <1>3 DEF CheckAsks, SetOut, github, RelInv, ReleaseTypeOK
  <2>2. OneAsks'
    BY <1>3, ReleaseAssumption DEF CheckAsks, SetOut, github, RelInv, ReleaseTypeOK, OneAsks
  <2>3. Fresh'
    BY <1>3 DEF CheckAsks, SetOut, github, RelInv, ReleaseTypeOK, OneAsks, Fresh
  <2> QED
    BY <2>1, <2>2, <2>3 DEF RelInv
<1>4. CASE LeaveWaiting(r)
  BY <1>4 DEF LeaveWaiting, github, RelInv, ReleaseTypeOK, OneAsks, Fresh
<1> QED
  BY <1>1, <1>2, <1>3, <1>4

\* GitHub's answer is what it shows, what was found cached, or an error.
LEMMA FetchKeeps ==
    ASSUME RelInv, NEW r \in Requests, Fetch(r)
    PROVE  RelInv'
<1>1. PICK reply \in Shown \cup NotModified(r) \cup {AskFailed} :
           fetched' = [fetched EXCEPT ![r] = reply]
  BY DEF Fetch
<1>2. /\ previous[r] = [info |-> cached, had |-> hasCache] /\ cached \in Answers
      /\ published \in since /\ published \in 0..MaxReleases /\ 0 \in 0..MaxReleases
  BY ReleaseAssumption DEF Fetch, RelInv, ReleaseTypeOK, Fresh
<1>3. /\ reply \in Replies
      /\ IF reply.info.error THEN reply.info.latest = 0
         ELSE reply.info.latest \in since \cup {cached.latest}
  <2>1. CASE reply \in Shown
    <3>1. [latest |-> published, error |-> FALSE] \in Answers
      BY <1>2 DEF Answers
    <3>2. reply.info = [latest |-> published, error |-> FALSE] /\ reply \in Replies
      BY <2>1, <3>1 DEF Shown, Replies
    <3>3. reply.info.latest = published /\ reply.info.error = FALSE
      BY <3>2
    <3> QED
      BY <1>2, <3>2, <3>3
  <2>2. CASE reply \in NotModified(r)
    <3>1. reply = [info |-> [cached EXCEPT !.error = FALSE], tagged |-> FALSE]
      BY <1>2, <2>2 DEF NotModified
    <3>2. /\ [cached EXCEPT !.error = FALSE] \in Answers
          /\ [cached EXCEPT !.error = FALSE].latest = cached.latest
          /\ ~[cached EXCEPT !.error = FALSE].error
      BY <1>2 DEF Answers
    <3> QED
      BY <3>1, <3>2 DEF Replies
  <2>3. CASE reply = AskFailed
    BY <1>2, <2>3 DEF AskFailed, Replies, Answers
  <2> QED
    BY <2>1, <2>2, <2>3
<1>4. /\ rpc[r] = "asking" /\ rpc' = [rpc EXCEPT ![r] = "storing"]
      /\ UNCHANGED <<published, releases, turns, cached, hasCache, age, etag, inFlight,
                     previous, ages, since>>
  BY DEF Fetch, github
<1>5. ReleaseTypeOK'
  BY <1>1, <1>3, <1>4 DEF RelInv, ReleaseTypeOK
<1>6. OneAsks'
  BY <1>4 DEF RelInv, ReleaseTypeOK, OneAsks
<1>7. Fresh'
  BY <1>1, <1>3, <1>4 DEF RelInv, ReleaseTypeOK, Fresh
<1> QED
  BY <1>5, <1>6, <1>7 DEF RelInv

\* What is stored is of a release GitHub has shown since, or of the one it replaces.
LEMMA MergedIs ==
    ASSUME RelInv, NEW r \in Requests, rpc[r] = "storing"
    PROVE  /\ Merged(r) \in Answers
           /\ Merged(r).latest \in since \cup {cached.latest}
<1>1. /\ previous[r] = [info |-> cached, had |-> hasCache] /\ cached \in Answers
      /\ fetched[r].info \in Answers
      /\ IF fetched[r].info.error THEN fetched[r].info.latest = 0
         ELSE fetched[r].info.latest \in since \cup {cached.latest}
      /\ ~hasCache => cached = NoInfo
  BY DEF RelInv, ReleaseTypeOK, Fresh, Replies
<1>2. CASE fetched[r].info.error /\ previous[r].had
  <2>1. Merged(r) = [cached EXCEPT !.error = TRUE]
    BY <1>1, <1>2 DEF Merged
  <2> QED
    BY <1>1, <2>1 DEF Answers
<1>3. CASE ~(fetched[r].info.error /\ previous[r].had)
  <2>1. Merged(r) = fetched[r].info
    BY <1>3 DEF Merged
  <2>2. fetched[r].info.error => fetched[r].info.latest = cached.latest
    BY <1>1, <1>3 DEF NoInfo
  <2> QED
    BY <1>1, <2>1, <2>2
<1> QED
  BY <1>2, <1>3

LEMMA StoreKeeps ==
    ASSUME RelInv, NEW r \in Requests, Store(r)
    PROVE  RelInv'
<1>1. /\ rpc[r] = "storing" /\ inFlight = r /\ inFlight' = NoFetch
      /\ rpc' = [q \in Requests |-> IF q = r \/ rpc[q] = "waiting" THEN "idle" ELSE rpc[q]]
      /\ cached' = Merged(r) /\ hasCache' = TRUE /\ age' = Floor
      /\ etag' = IF fetched[r].tagged THEN {fetched[r].info.latest} ELSE etag
      /\ since' = {published}
      /\ UNCHANGED <<published, releases, turns, previous, fetched, ages>>
  BY DEF Store, StoreAnswer, github, RelInv, OneAsks
<1>2. \A q \in Requests : rpc'[q] \in {"idle"} \/ rpc'[q] = rpc[q]
  BY <1>1
<1>3. \A q \in Requests : rpc'[q] \notin {"asking", "storing"}
  BY <1>1 DEF RelInv, OneAsks
<1>4. ReleaseTypeOK'
  <2>1. fetched[r].info.latest \in 0..MaxReleases
    BY DEF RelInv, ReleaseTypeOK, Replies, Answers
  <2>2. rpc' \in [Requests -> {"idle", "waiting", "asking", "storing"}]
    BY <1>1 DEF RelInv, ReleaseTypeOK
  <2>3. cached' \in Answers /\ since' \subseteq 0..MaxReleases /\ hasCache' \in BOOLEAN
        /\ inFlight' \in Requests \union {NoFetch}
    BY <1>1, MergedIs DEF RelInv, ReleaseTypeOK
  <2>4. etag' \subseteq 0..MaxReleases /\ age' \in Floor..Expired
    <3>1. etag \subseteq 0..MaxReleases /\ {fetched[r].info.latest} \subseteq 0..MaxReleases
      BY <2>1 DEF RelInv, ReleaseTypeOK
    <3>2. Floor \in Floor..Expired
      BY DEF Floor, Expired
    <3>3. CASE fetched[r].tagged
      BY <1>1, <3>1, <3>2, <3>3
    <3>4. CASE ~fetched[r].tagged
      BY <1>1, <3>1, <3>2, <3>4
    <3> QED
      BY <3>3, <3>4
  <2> QED
    BY <1>1, <2>2, <2>3, <2>4 DEF RelInv, ReleaseTypeOK
<1>5. OneAsks'
  BY <1>1, <1>3, ReleaseAssumption DEF OneAsks
<1>6. Fresh'
  BY <1>1, <1>3 DEF Fresh
<1> QED
  BY <1>4, <1>5, <1>6 DEF RelInv

\* What GitHub shows, or shows again, only adds to what it has shown.
LEMMA ShowsKeeps ==
    ASSUME RelInv, NEW n \in 0..MaxReleases, Shows(n),
           releases' \in 0..MaxReleases, turns' \in Nat
    PROVE  RelInv'
<1>1. ReleaseTypeOK'
  BY DEF Shows, RelInv, ReleaseTypeOK
<1>2. OneAsks'
  BY DEF Shows, RelInv, OneAsks
<1>3. Fresh'
  BY DEF Shows, RelInv, Fresh
<1> QED
  BY <1>1, <1>2, <1>3 DEF RelInv

LEMMA TimeKeeps ==
    ASSUME RelInv, Publish \/ Turn \/ GrowOlder
    PROVE  RelInv'
<1>1. /\ releases \in Nat /\ turns \in Nat /\ MaxReleases \in Nat
      /\ releases \in 0..MaxReleases
  BY ReleaseAssumption DEF RelInv, ReleaseTypeOK
<1>2. CASE Publish
  <2>1. releases + 1 \in 0..MaxReleases
    BY <1>1, <1>2 DEF Publish
  <2> QED
    BY <1>1, <1>2, <2>1, ShowsKeeps DEF Publish
<1>3. CASE Turn
  <2>1. PICK n \in 0..releases : Shows(n)
    BY <1>3 DEF Turn
  <2>2. n \in 0..MaxReleases /\ turns + 1 \in Nat
    BY <1>1, <2>1
  <2> QED
    BY <1>1, <1>3, <2>1, <2>2, ShowsKeeps DEF Turn
<1>4. CASE GrowOlder
  BY <1>4 DEF GrowOlder, github, RelInv, ReleaseTypeOK, OneAsks, Fresh, Floor, Expired
<1> QED
  BY <1>2, <1>3, <1>4

LEMMA AlwaysRel == ReleaseSpec => []RelInv
<1>1. ReleaseInit => RelInv
  BY InitRel
<1>2. RelInv /\ [ReleaseNext]_relVars => RelInv'
  <2> SUFFICES ASSUME RelInv, [ReleaseNext]_relVars PROVE RelInv'
    OBVIOUS
  <2>1. CASE UNCHANGED relVars
    BY <2>1 DEF relVars, github, RelInv, ReleaseTypeOK, OneAsks, Fresh
  <2>2. ASSUME NEW r \in Requests, LeaveWaiting(r) PROVE RelInv'
    BY <2>2, AskKeeps
  <2> QED
    BY <2>1, <2>2, AskKeeps, FetchKeeps, StoreKeeps, TimeKeeps DEF ReleaseNext
<1> QED
  BY <1>1, <1>2, PTL DEF ReleaseSpec

\* The variables keep their types.
THEOREM ReleaseTypeCorrect == ReleaseSpec => []ReleaseTypeOK
<1>1. RelInv => ReleaseTypeOK
  BY DEF RelInv
<1> QED
  BY <1>1, AlwaysRel, PTL

\* The release shown, or that there is none, is given up only for what GitHub has shown
\* since: not for an error, nor for an answer older than the one it replaces.
THEOREM CheckFollowsGitHub == ReleaseSpec => ShownFollowsGitHub
<1>1. RelInv /\ [ReleaseNext]_relVars =>
          [cached'.latest # cached.latest => cached'.latest \in since]_relVars
  <2> SUFFICES ASSUME RelInv, ReleaseNext, cached'.latest # cached.latest
               PROVE  cached'.latest \in since
    OBVIOUS
  <2>1. ASSUME NEW r \in Requests, Store(r) PROVE cached'.latest \in since
    BY <2>1, MergedIs DEF Store, StoreAnswer
  <2>2. cached' # cached
    OBVIOUS
  <2> QED
    BY <2>1, <2>2 DEF ReleaseNext, CheckCached, relVars, CheckWaits, CheckAsks, SetOut, Fetch,
                      LeaveWaiting, Publish, Turn, Shows, GrowOlder
<1> QED
  BY <1>1, AlwaysRel, PTL DEF ReleaseSpec, ShownFollowsGitHub

--------------------------------------------------------------------------------
(***************************************************************************)
(* HostThrottle.                                                           *)
(***************************************************************************)
\* Who waits is in the queue, once.
Queued ==
    /\ \A i \in 1..Len(queue) : pc[queue[i]] = "queued"
    /\ \A i, j \in 1..Len(queue) : queue[i] = queue[j] => i = j
    /\ \A c \in Callers : pc[c] = "queued" => \E i \in 1..Len(queue) : queue[i] = c
ThrottleInv == ThrottleTypeOK /\ Queued /\ IsFiniteSet(Holders) /\ SlotsAreShared

LEMMA ThrottleBegins == ThrottleInit => ThrottleInv
<1> SUFFICES ASSUME ThrottleInit PROVE ThrottleInv
  OBVIOUS
<1>1. Holders = {} /\ Slots \in Nat \ {0} /\ Ceiling \in Nat /\ MaxFaults \in Nat /\ MaxCancels \in Nat /\ Budget \in Nat
  BY ThrottleAssumption DEF ThrottleInit, Holders
<1>2. IsFiniteSet(Holders) /\ Cardinality(Holders) = 0
  BY <1>1, FS_EmptySet
<1>3. ThrottleTypeOK
  BY <1>1 DEF ThrottleInit, ThrottleTypeOK
<1> QED
  BY <1>1, <1>2, <1>3 DEF ThrottleInv, ThrottleInit, Queued, SlotsAreShared

\* A delay that is raised or eased stays within the ceiling.
LEMMA DelaysAreBounded ==
    ASSUME backoff \in 0..Ceiling PROVE Eased \in 0..Ceiling /\ Raised \in 0..Ceiling
<1>1. backoff \in Nat /\ Ceiling \in Nat /\ Bump \in Nat
  BY ThrottleAssumption
<1>2. Eased \in 0..Ceiling
  BY <1>1 DEF Eased
<1>3. Raised \in {2 * backoff + Bump, Ceiling} /\ Raised <= Ceiling
  <2> DEFINE x == 2 * backoff + Bump
             S == {x, Ceiling}
  <2>1. x \in Nat
    BY <1>1
  <2> HIDE DEF x
  <2>2. \E m \in S : \A y \in S : m =< y
    <3>1. CASE x <= Ceiling
      BY <1>1, <2>1, <3>1
    <3>2. CASE ~(x <= Ceiling)
      BY <1>1, <2>1, <3>2
    <3> QED
      BY <3>1, <3>2
  <2>3. Min(S) \in S /\ \A y \in S : Min(S) =< y
    BY <2>2 DEF Min
  <2> QED
    BY <2>3 DEF Raised, x
<1>4. Raised \in Nat
  BY <1>1, <1>3
<1> QED
  BY <1>1, <1>2, <1>3, <1>4

\* A queue from which the i-th has gone.
LEMMA QueueRemoval ==
    ASSUME NEW S, NEW q \in Seq(S), NEW i \in 1..Len(q)
    PROVE  /\ RemoveAt(q, i) \in Seq(S) /\ Len(RemoveAt(q, i)) = Len(q) - 1
           /\ \A j \in 1..(Len(q) - 1) :
                RemoveAt(q, i)[j] = IF j < i THEN q[j] ELSE q[j + 1]
<1>1. /\ SubSeq(q, 1, i - 1) \in Seq(S) /\ Len(SubSeq(q, 1, i - 1)) = i - 1
      /\ \A j \in 1..(i - 1) : SubSeq(q, 1, i - 1)[j] = q[j]
  OBVIOUS
<1>2. /\ SubSeq(q, i + 1, Len(q)) \in Seq(S) /\ Len(SubSeq(q, i + 1, Len(q))) = Len(q) - i
      /\ \A j \in 1..(Len(q) - i) : SubSeq(q, i + 1, Len(q))[j] = q[j + i]
  OBVIOUS
<1> DEFINE a == SubSeq(q, 1, i - 1)
           b == SubSeq(q, i + 1, Len(q))
           r == a \o b
<1>3. RemoveAt(q, i) = r /\ Len(q) \in Nat /\ i \in 1..Len(q)
  BY DEF RemoveAt
<1> HIDE DEF a, b
<1>4. a \in Seq(S) /\ b \in Seq(S) /\ Len(a) = i - 1 /\ Len(b) = Len(q) - i
  BY <1>1, <1>2 DEF a, b
<1>5. /\ r \in Seq(S) /\ Len(r) = Len(a) + Len(b)
      /\ \A j \in 1..(Len(a) + Len(b)) : r[j] = IF j <= Len(a) THEN a[j] ELSE b[j - Len(a)]
  BY <1>4, ConcatProperties
<1>6. Len(a) + Len(b) = Len(q) - 1
  BY <1>4, <1>3
<1>7. r \in Seq(S) /\ Len(r) = Len(q) - 1
  BY <1>5, <1>6
<1>8. \A j \in 1..(Len(q) - 1) : r[j] = IF j <= Len(a) THEN a[j] ELSE b[j - Len(a)]
  BY <1>5, <1>6
<1>9. ASSUME NEW j \in 1..(Len(q) - 1), j < i PROVE r[j] = q[j]
  BY <1>1, <1>3, <1>8, <1>9 DEF a
<1>10. ASSUME NEW j \in 1..(Len(q) - 1), ~(j < i) PROVE r[j] = q[j + 1]
  <2>1. j - (i - 1) \in 1..(Len(q) - i) /\ ~(j <= i - 1) /\ j - (i - 1) + i = j + 1
    BY <1>3, <1>10
  <2>2. r[j] = b[j - (i - 1)]
    BY <1>1, <1>8, <2>1 DEF a
  <2>3. b[j - (i - 1)] = q[j - (i - 1) + i]
    BY <1>2, <2>1 DEF b
  <2> QED
    BY <2>1, <2>2, <2>3
<1> QED
  BY <1>3, <1>7, <1>9, <1>10

\* The queue without its i-th keeps those who wait in it, once each.
LEMMA QueueWithout ==
    ASSUME ThrottleTypeOK, Queued, NEW i \in 1..Len(queue),
           queue' \in Seq(Callers), Len(queue') = Len(queue) - 1,
           \A j \in 1..(Len(queue) - 1) : queue'[j] = IF j < i THEN queue[j] ELSE queue[j + 1],
           pc' \in [Callers -> {"idle", "queued", "granted", "paced", "sent"}],
           \A c \in Callers : pc'[c] = "queued" <=> pc[c] = "queued" /\ c # queue[i]
    PROVE  Queued'
<1> DEFINE n == Len(queue)
           src(j) == IF j < i THEN j ELSE j + 1
<1>1. n \in Nat /\ queue \in Seq(Callers)
  BY DEF ThrottleTypeOK
<1>2. /\ \A j \in 1..(n - 1) : src(j) \in 1..n /\ src(j) # i
      /\ \A j, k \in 1..(n - 1) : src(j) = src(k) => j = k
      /\ \A m \in 1..n : m # i => \E j \in 1..(n - 1) : src(j) = m
  <2>1. \A m \in 1..n : m # i => \E j \in 1..(n - 1) : src(j) = m
    <3> SUFFICES ASSUME NEW m \in 1..n, m # i PROVE \E j \in 1..(n - 1) : src(j) = m
      OBVIOUS
    <3>1. CASE m < i
      <4>1. m \in 1..(n - 1) /\ src(m) = m
        BY <1>1, <3>1
      <4> QED
        BY <4>1
    <3>2. CASE ~(m < i)
      <4>1. m - 1 \in 1..(n - 1) /\ src(m - 1) = m
        BY <1>1, <3>2
      <4> QED
        BY <4>1
    <3> QED
      BY <3>1, <3>2
  <2>2. /\ \A j \in 1..(n - 1) : src(j) \in 1..n /\ src(j) # i
        /\ \A j, k \in 1..(n - 1) : src(j) = src(k) => j = k
    BY <1>1
  <2> QED
    BY <2>1, <2>2
<1>3. \A j \in 1..(n - 1) : queue'[j] = queue[src(j)]
  OBVIOUS
<1> DEFINE D == 1..n
           E == 1..(n - 1)
<1>4. /\ \A j \in D : queue[j] \in Callers /\ pc[queue[j]] = "queued"
      /\ \A j, k \in D : queue[j] = queue[k] => j = k
      /\ \A c \in Callers : pc[c] = "queued" => \E j \in D : queue[j] = c
  BY <1>1 DEF Queued
<1>5. i \in D /\ \A j \in E : src(j) \in D /\ src(j) # i /\ queue'[j] = queue[src(j)]
  BY <1>2, <1>3
<1>6. /\ \A j, k \in E : src(j) = src(k) => j = k
      /\ \A m \in D : m # i => \E j \in E : src(j) = m
  BY <1>2
<1>7. Len(queue') = n - 1
  OBVIOUS
<1>8. \A c \in Callers : pc'[c] = "queued" <=> pc[c] = "queued" /\ c # queue[i]
  OBVIOUS
<1> HIDE DEF src, D
<1>9. \A j \in E : pc'[queue'[j]] = "queued"
  <2> SUFFICES ASSUME NEW j \in E PROVE pc'[queue'[j]] = "queued"
    OBVIOUS
  <2> DEFINE k == src(j)
  <2>1. k \in D /\ k # i /\ queue'[j] = queue[k] /\ i \in D
    BY <1>5
  <2> HIDE DEF k, E
  <2>2. queue[k] # queue[i] /\ queue[k] \in Callers /\ pc[queue[k]] = "queued"
    BY <2>1, <1>4
  <2>3. pc'[queue[k]] = "queued"
    BY <2>2, <1>8
  <2> QED
    BY <2>1, <2>3
<1>10. \A j, k \in E : queue'[j] = queue'[k] => j = k
  <2> SUFFICES ASSUME NEW j \in E, NEW k \in E, queue'[j] = queue'[k] PROVE j = k
    OBVIOUS
  <2>1. src(j) \in D /\ src(k) \in D /\ queue[src(j)] = queue[src(k)]
    BY <1>5
  <2>2. src(j) = src(k)
    BY <2>1, <1>4
  <2> QED
    BY <2>2, <1>6
<1>11. \A c \in Callers : pc'[c] = "queued" => \E j \in E : queue'[j] = c
  <2> SUFFICES ASSUME NEW c \in Callers, pc'[c] = "queued" PROVE \E j \in E : queue'[j] = c
    OBVIOUS
  <2>1. pc[c] = "queued" /\ c # queue[i]
    BY <1>8
  <2>2. PICK m \in D : queue[m] = c
    BY <2>1, <1>4
  <2>3. m # i
    BY <2>1, <2>2
  <2>4. PICK j \in E : src(j) = m
    BY <2>3, <1>6
  <2>5. queue'[j] = queue[src(j)]
    BY <1>5
  <2> QED
    BY ONLY <2>2, <2>4, <2>5
<1> HIDE DEF n
<1> QED
  BY <1>7, <1>9, <1>10, <1>11 DEF Queued

\* A caller that ends gives its slot to the first that waits.
LEMMA HandedOn ==
    ASSUME ThrottleInv, NEW c \in Holders, Return(c)
    PROVE  /\ pc' \in [Callers -> {"idle", "queued", "granted", "paced", "sent"}]
           /\ queue' \in Seq(Callers)
           /\ Queued' /\ IsFiniteSet(Holders)' /\ SlotsAreShared'
<1>1. /\ pc \in [Callers -> {"idle", "queued", "granted", "paced", "sent"}]
      /\ queue \in Seq(Callers) /\ ThrottleTypeOK /\ Queued /\ c \in Callers
      /\ IsFiniteSet(Holders) /\ Cardinality(Holders) <= Slots /\ Slots \in Nat
  BY ThrottleAssumption DEF ThrottleInv, ThrottleTypeOK, SlotsAreShared, Holders
<1>2. /\ IsFiniteSet(Holders \ {c}) /\ Cardinality(Holders \ {c}) = Cardinality(Holders) - 1
      /\ Cardinality(Holders) \in Nat /\ Cardinality(Holders \ {c}) \in Nat
  BY <1>1, FS_RemoveElement, FS_CardinalityType
<1>3. CASE queue = <<>>
  <2>1. pc' = [pc EXCEPT ![c] = "idle"] /\ queue' = <<>>
    BY <1>3 DEF Return
  <2>2. Holders' = Holders \ {c}
    BY <1>1, <2>1 DEF Holders
  <2>3. \A d \in Callers : pc'[d] # "queued"
    BY <1>1, <1>3, <2>1 DEF Queued
  <2>4. Cardinality(Holders') <= Slots
    BY <1>1, <1>2, <2>2
  <2> QED
    BY <1>1, <1>2, <2>1, <2>2, <2>3, <2>4 DEF Queued, SlotsAreShared
<1>4. CASE queue # <<>>
  <2> DEFINE h == Head(queue)
  <2>1. pc' = [pc EXCEPT ![c] = "idle", ![h] = "granted"] /\ queue' = Tail(queue)
    BY <1>4 DEF Return
  <2>2. 1 \in 1..Len(queue) /\ h = queue[1] /\ h \in Callers /\ Len(queue) \in Nat
    BY <1>1, <1>4
  <2>3. /\ queue' \in Seq(Callers) /\ Len(queue') = Len(queue) - 1
        /\ \A j \in 1..(Len(queue) - 1) : queue'[j] = IF j < 1 THEN queue[j] ELSE queue[j + 1]
    BY <1>1, <1>4, <2>1, <2>2
  <2> HIDE DEF h
  <2>4. pc[h] = "queued" /\ h # c /\ h \notin Holders
    BY <1>1, <2>2 DEF Queued, Holders
  <2>5. /\ pc' \in [Callers -> {"idle", "queued", "granted", "paced", "sent"}]
        /\ \A d \in Callers : pc'[d] = IF d = h THEN "granted" ELSE IF d = c THEN "idle" ELSE pc[d]
    BY <1>1, <2>1, <2>2, <2>4
  <2>6. \A d \in Callers : pc'[d] = "queued" <=> pc[d] = "queued" /\ d # queue[1]
    BY <2>2, <2>5, <1>1 DEF Holders
  <2>7. Queued'
    BY <1>1, <2>2, <2>3, <2>5, <2>6, QueueWithout
  <2>8. Holders' = (Holders \ {c}) \cup {h}
    BY <2>2, <2>4, <2>5 DEF Holders
  <2>9. IsFiniteSet(Holders') /\ Cardinality(Holders') = Cardinality(Holders)
    <3>1. h \notin Holders \ {c}
      BY <2>4
    <3>2. /\ IsFiniteSet((Holders \ {c}) \cup {h})
          /\ Cardinality((Holders \ {c}) \cup {h}) = Cardinality(Holders \ {c}) + 1
      BY <1>2, <3>1, FS_AddElement
    <3> QED
      BY <1>2, <2>8, <3>2
  <2>10. Cardinality(Holders) = Slots
    BY <2>2, <2>4 DEF ThrottleInv, SlotsAreShared
  <2>11. SlotsAreShared'
    BY <1>1, <2>9, <2>10 DEF SlotsAreShared
  <2> QED
    BY <2>3, <2>5, <2>7, <2>9, <2>11
<1> QED
  BY <1>3, <1>4

\* A step after which the same callers wait, hold a slot and have none.
LEMMA SameSlots ==
    ASSUME ThrottleInv, queue' = queue, ThrottleTypeOK',
           \A d \in Callers : /\ pc'[d] = "queued" <=> pc[d] = "queued"
                              /\ pc'[d] \in {"granted", "paced", "sent"}
                                   <=> pc[d] \in {"granted", "paced", "sent"}
    PROVE  ThrottleInv'
<1>1. Holders' = Holders
  BY DEF Holders
<1>2. queue \in Seq(Callers)
  BY DEF ThrottleInv, ThrottleTypeOK
<1>3. \A i \in 1..Len(queue) : queue[i] \in Callers
  BY <1>2
<1>4. Queued'
  BY <1>3 DEF ThrottleInv, Queued
<1> QED
  BY <1>1, <1>4 DEF ThrottleInv, SlotsAreShared

LEMMA RequestKeeps == ASSUME ThrottleInv, NEW c \in Callers, Request(c) PROVE ThrottleInv'
<1>1. /\ pc \in [Callers -> {"idle", "queued", "granted", "paced", "sent"}]
      /\ queue \in Seq(Callers) /\ pc[c] = "idle" /\ c \notin Holders /\ Queued
      /\ IsFiniteSet(Holders) /\ Cardinality(Holders) <= Slots /\ Slots \in Nat
  BY ThrottleAssumption DEF ThrottleInv, ThrottleTypeOK, SlotsAreShared, Holders, Request
<1>2. Cardinality(Holders) \in Nat
  BY <1>1, FS_CardinalityType
<1>3. left' \in [Callers -> 0..Budget]
  BY ThrottleAssumption DEF Request, ThrottleInv, ThrottleTypeOK
<1>4. CASE Cardinality(Holders) < Slots
  <2>1. pc' = [pc EXCEPT ![c] = "granted"] /\ queue' = queue
    BY <1>1, <1>2, <1>4 DEF Request
  <2>2. Holders' = Holders \cup {c}
    BY <1>1, <2>1 DEF Holders
  <2>3. IsFiniteSet(Holders') /\ Cardinality(Holders') = Cardinality(Holders) + 1
    BY <1>1, <2>2, FS_AddElement
  <2>4. \A d \in Callers : pc[d] # "queued" /\ pc'[d] # "queued"
    <3>1. \A d \in Callers : pc[d] # "queued"
      BY <1>1, <1>2, <1>4 DEF ThrottleInv, SlotsAreShared
    <3> QED
      BY <1>1, <2>1, <3>1
  <2>5. SlotsAreShared'
    BY <1>1, <1>2, <1>4, <2>3, <2>4 DEF SlotsAreShared
  <2>6. ThrottleTypeOK'
    BY <1>3, <2>1 DEF Request, ThrottleInv, ThrottleTypeOK
  <2>7. Queued'
    <3>1. \A i \in 1..Len(queue) : queue[i] \in Callers
      BY <1>1
    <3> QED
      BY <1>1, <2>1, <2>4, <3>1 DEF Queued
  <2> QED
    BY <2>3, <2>5, <2>6, <2>7 DEF ThrottleInv
<1>5. CASE Cardinality(Holders) >= Slots
  <2>1. pc' = [pc EXCEPT ![c] = "queued"] /\ queue' = Append(queue, c)
    BY <1>1, <1>2, <1>5 DEF Request
  <2>2. Holders' = Holders
    BY <1>1, <2>1 DEF Holders
  <2>3. SlotsAreShared' /\ IsFiniteSet(Holders')
    BY <1>1, <1>2, <1>5, <2>2 DEF SlotsAreShared
  <2>4. /\ queue' \in Seq(Callers) /\ Len(queue') = Len(queue) + 1 /\ Len(queue) \in Nat
        /\ \A i \in 1..Len(queue) : queue'[i] = queue[i] /\ queue[i] \in Callers
        /\ queue'[Len(queue) + 1] = c
    BY <1>1, <2>1
  <2>5. ThrottleTypeOK'
    BY <1>3, <2>1, <2>4 DEF Request, ThrottleInv, ThrottleTypeOK
  <2>6. Queued'
    <3> DEFINE D == 1..Len(queue)
               n == Len(queue) + 1
    <3>1. 1..Len(queue') = D \cup {n} /\ n \notin D
      BY <2>4
    <3>2. /\ queue'[n] = c /\ \A i \in D : queue'[i] = queue[i] /\ queue[i] \in Callers /\ pc[queue[i]] = "queued"
      BY <1>1, <2>4 DEF Queued
    <3>3. /\ \A i, j \in D : queue[i] = queue[j] => i = j
          /\ \A d \in Callers : pc[d] = "queued" => \E i \in D : queue[i] = d
      BY <1>1 DEF Queued
    <3>4. pc'[c] = "queued" /\ \A d \in Callers : d # c => pc'[d] = pc[d]
      BY <1>1, <2>1
    <3> HIDE DEF D, n
    <3>5. \A i \in D : queue[i] # c
      BY <1>1, <3>2
    <3>6. \A i \in D \cup {n} : pc'[queue'[i]] = "queued"
      BY <3>2, <3>4
    <3>7. \A i, j \in D \cup {n} : queue'[i] = queue'[j] => i = j
      BY <3>2, <3>3, <3>5
    <3>8. \A d \in Callers : pc'[d] = "queued" => \E i \in D \cup {n} : queue'[i] = d
      BY <3>2, <3>3, <3>4
    <3> QED
      BY <3>1, <3>6, <3>7, <3>8 DEF Queued
  <2> QED
    BY <2>3, <2>5, <2>6 DEF ThrottleInv
<1> QED
  BY <1>1, <1>2, <1>4, <1>5

LEMMA QueueTimeoutKeeps ==
    ASSUME ThrottleInv, NEW c \in Callers, QueueTimeout(c) PROVE ThrottleInv'
<1>1. /\ pc \in [Callers -> {"idle", "queued", "granted", "paced", "sent"}]
      /\ queue \in Seq(Callers) /\ pc[c] = "queued" /\ ThrottleTypeOK /\ Queued
      /\ pc' = [pc EXCEPT ![c] = "idle"]
  BY DEF ThrottleInv, ThrottleTypeOK, QueueTimeout
<1>2. PICK i \in 1..Len(queue) : queue[i] = c /\ queue' = RemoveAt(queue, i)
  BY <1>1 DEF QueueTimeout
<1>3. /\ queue' \in Seq(Callers) /\ Len(queue') = Len(queue) - 1
      /\ \A j \in 1..(Len(queue) - 1) : queue'[j] = IF j < i THEN queue[j] ELSE queue[j + 1]
  BY <1>1, <1>2, QueueRemoval
<1>4. pc' \in [Callers -> {"idle", "queued", "granted", "paced", "sent"}]
  BY <1>1
<1>5. \A d \in Callers : pc'[d] = "queued" <=> pc[d] = "queued" /\ d # queue[i]
  BY <1>1, <1>2
<1>6. Queued'
  BY <1>1, <1>3, <1>4, <1>5, QueueWithout
<1>7. Holders' = Holders
  BY <1>1 DEF Holders
<1>8. ThrottleTypeOK'
  BY <1>3, <1>4 DEF ThrottleTypeOK, ThrottleInv, QueueTimeout
<1>9. SlotsAreShared'
  BY <1>5, <1>7 DEF ThrottleInv, SlotsAreShared
<1> QED
  BY <1>6, <1>7, <1>8, <1>9 DEF ThrottleInv

LEMMA CallerKeeps ==
    ASSUME ThrottleInv, NEW c \in Callers, Pace(c) \/ Send(c) \/ Expire(c) \/ Answer(c)
    PROVE  ThrottleInv'
<1>1. /\ pc \in [Callers -> {"idle", "queued", "granted", "paced", "sent"}] /\ ThrottleTypeOK
      /\ backoff \in 0..Ceiling /\ backoff \in Nat /\ Service \in Nat
  BY ThrottleAssumption DEF ThrottleInv, ThrottleTypeOK
<1>2. CASE Pace(c) \/ Send(c)
  <2>1. ThrottleTypeOK'
    BY <1>1, <1>2 DEF Pace, Send, ThrottleTypeOK
  <2>2. /\ queue' = queue
        /\ \A d \in Callers : /\ pc'[d] = "queued" <=> pc[d] = "queued"
                              /\ pc'[d] \in {"granted", "paced", "sent"}
                                   <=> pc[d] \in {"granted", "paced", "sent"}
    BY <1>1, <1>2 DEF Pace, Send
  <2> QED
    BY <2>1, <2>2, SameSlots
<1>3. CASE Expire(c) \/ Answer(c)
  <2>1. c \in Holders /\ Return(c)
    BY <1>3 DEF Expire, Answer, Holders
  <2>2. backoff' \in 0..Ceiling
    BY <1>1, <1>3, DelaysAreBounded DEF Expire, Answer
  <2>3. timer' \in [Callers -> Nat]
    <3>1. timer \in [Callers -> Nat] /\ timer' = [timer EXCEPT ![c] = 0]
      BY <1>1, <1>3 DEF Expire, Answer, ThrottleTypeOK
    <3> QED
      BY <3>1
  <2>4. UNCHANGED <<left, host, faults, cancels>>
    BY <1>3 DEF Expire, Answer
  <2>5. ThrottleTypeOK'
    BY <1>1, <2>1, <2>2, <2>3, <2>4, HandedOn DEF ThrottleTypeOK
  <2> QED
    BY <2>1, <2>5, HandedOn DEF ThrottleInv
<1> QED
  BY <1>2, <1>3

LEMMA ElseKeeps ==
    ASSUME ThrottleInv, (\E c \in Callers : CancelRequest(c)) \/ FallIll \/ Recover \/ Pass
    PROVE  ThrottleInv'
<1>1. /\ ThrottleTypeOK /\ MaxFaults \in Nat /\ MaxCancels \in Nat /\ Service \in Nat /\ Budget \in Nat
  BY ThrottleAssumption DEF ThrottleInv
<1>2. \A n \in 0..Budget : Less(n) \in 0..Budget
  BY <1>1 DEF Less
<1>3. \A n \in Nat : Less(n) \in Nat
  BY DEF Less
<1>4. CASE \E c \in Callers : CancelRequest(c)
  <2>1. ThrottleTypeOK' /\ pc' = pc /\ queue' = queue
    BY <1>1, <1>4 DEF CancelRequest, ThrottleTypeOK
  <2> QED
    BY <2>1, SameSlots
<1>5. CASE FallIll
  BY <1>1, <1>5, SameSlots DEF FallIll, ThrottleTypeOK
<1>6. CASE Recover
  BY <1>1, <1>6, SameSlots DEF Recover, ThrottleTypeOK
<1>7. CASE Pass
  <2>1. left' \in [Callers -> 0..Budget] /\ timer' \in [Callers -> Nat]
    <3>1. /\ left' = [c \in Callers |-> IF pc[c] = "idle" THEN 0 ELSE Less(left[c])]
          /\ timer' = [c \in Callers |-> Less(timer[c])]
      BY <1>7 DEF Pass
    <3>2. \A c \in Callers : left[c] \in 0..Budget /\ timer[c] \in Nat
      BY <1>1 DEF ThrottleTypeOK
    <3>3. \A c \in Callers : Less(left[c]) \in 0..Budget /\ Less(timer[c]) \in Nat
      BY <1>2, <1>3, <3>2
    <3>4. 0 \in 0..Budget
      BY <1>1
    <3> HIDE DEF Less
    <3> QED
      BY <3>1, <3>3, <3>4
  <2>2. ThrottleTypeOK' /\ pc' = pc /\ queue' = queue
    BY <1>1, <1>7, <2>1 DEF Pass, ThrottleTypeOK
  <2> QED
    BY <2>2, SameSlots
<1> QED
  BY <1>4, <1>5, <1>6, <1>7

LEMMA ThrottleIsSound == ThrottleSpec => []ThrottleInv
<1>1. ThrottleInv /\ [ThrottleNext]_thrVars => ThrottleInv'
  <2> SUFFICES ASSUME ThrottleInv, [ThrottleNext]_thrVars PROVE ThrottleInv'
    OBVIOUS
  <2>1. CASE UNCHANGED thrVars
    BY <2>1, SameSlots DEF thrVars, ThrottleInv, ThrottleTypeOK
  <2>2. ASSUME NEW c \in Callers, Request(c) \/ CallerStep(c) PROVE ThrottleInv'
    BY <2>2, RequestKeeps, QueueTimeoutKeeps, CallerKeeps DEF CallerStep
  <2> QED
    BY <2>1, <2>2, ElseKeeps DEF ThrottleNext
<1> QED
  BY <1>1, ThrottleBegins, PTL DEF ThrottleSpec

\* The delay of a host stays within the ceiling, and requests wait, hold a slot and run out
\* of time as they may, for any number of callers and slots and any times.
THEOREM ThrottleTypeCorrect == ThrottleSpec => []ThrottleTypeOK
<1>1. ThrottleInv => ThrottleTypeOK
  BY DEF ThrottleInv
<1> QED
  BY <1>1, ThrottleIsSound, PTL

\* No more requests are in flight to a host than there are slots, and none waits while a
\* slot is free, whatever runs out of time in the queue or with a slot.
THEOREM SlotsShared == ThrottleSpec => []SlotsAreShared
<1>1. ThrottleInv => SlotsAreShared
  BY DEF ThrottleInv
<1> QED
  BY <1>1, ThrottleIsSound, PTL
================================================================================

----------------------------- MODULE WebsocketHub -----------------------------
(* The websocket hub: one goroutine owns the set of clients and fans each     *)
(* broadcast out to their send channels; every client has a reader and a      *)
(* writer goroutine.  Broadcasts are numbered as the hub accepts them; a ping  *)
(* is the message Ping.  Sending to a channel that is full evicts the client  *)
(* by closing its channel.                                                     *)
EXTENDS Naturals, Sequences, SequencesExt, FiniteSets
CONSTANTS
    Clients,        \* connections that may be opened, each at most once
    QueueCap,       \* capacity of the broadcast channel (512)
    SendCap,        \* capacity of the send channel of a client (256)
    MaxBroadcasts,  \* bound: calls of Broadcast
    MaxPings        \* bound: keepalive ticks of the hub
ASSUME HubAssumption == /\ QueueCap \in Nat \ {0} /\ SendCap \in Nat \ {0}
                        /\ MaxBroadcasts \in Nat /\ MaxPings \in Nat
Ping == 0

VARIABLES
    broadcast,  \* accepted messages the hub has not fanned out
    accepted,   \* number of messages accepted so far
    members,    \* the map of clients
    send,       \* send channel of each client
    closed,     \* clients whose send channel is closed
    conn,       \* "none", "open", "lost" (the peer is gone), "closed"
    reader,     \* "none", "reading", "leaving", "done"
    writer,     \* "none", "writing", "done"
    joined,     \* history: broadcasts fanned out before the client was registered
    received,   \* history: what the writer wrote to the connection
    pings       \* keepalive ticks so far
hubVars == <<broadcast, accepted, members, send, closed, conn, reader, writer,
             joined, received, pings>>

HubInit ==
    /\ broadcast = <<>> /\ accepted = 0 /\ members = {} /\ closed = {} /\ pings = 0
    /\ send = [c \in Clients |-> <<>>] /\ received = [c \in Clients |-> <<>>]
    /\ conn = [c \in Clients |-> "none"]
    /\ reader = [c \in Clients |-> "none"] /\ writer = [c \in Clients |-> "none"]
    /\ joined = [c \in Clients |-> 0]

\* Broadcasts that left the queue of the hub.
FannedOut == accepted - Len(broadcast)

\* A full queue drops the message; the caller never waits.
Broadcast ==
    /\ accepted < MaxBroadcasts /\ Len(broadcast) < QueueCap
    /\ accepted' = accepted + 1 /\ broadcast' = Append(broadcast, accepted + 1)
    /\ UNCHANGED <<members, send, closed, conn, reader, writer, joined, received, pings>>

\* ServeWS hands the client to the hub and starts its goroutines afterwards.
Register(c) ==
    /\ conn[c] = "none"
    /\ conn' = [conn EXCEPT ![c] = "open"] /\ members' = members \union {c}
    /\ joined' = [joined EXCEPT ![c] = FannedOut]
    /\ UNCHANGED <<broadcast, accepted, send, closed, reader, writer, received, pings>>
StartPumps(c) ==
    /\ conn[c] # "none" /\ reader[c] = "none"
    /\ reader' = [reader EXCEPT ![c] = "reading"]
    /\ writer' = [writer EXCEPT ![c] = "writing"]
    /\ UNCHANGED <<broadcast, accepted, members, send, closed, conn, joined, received, pings>>

HasRoom(c) == Len(send[c]) < SendCap
\* What every member with room is sent.
Offered(m) == [c \in Clients |-> IF c \in members /\ HasRoom(c) THEN Append(send[c], m)
                                 ELSE send[c]]
\* A bug: a message that does not fit is skipped, as a ping is.
FanOutSkippingFull ==
    /\ broadcast # <<>> /\ broadcast' = Tail(broadcast)
    /\ send' = Offered(Head(broadcast))
    /\ UNCHANGED <<accepted, members, closed, conn, reader, writer, joined, received, pings>>
\* A client with a full channel leaves the map and its channel is closed.
FanOut ==
    /\ broadcast # <<>> /\ broadcast' = Tail(broadcast)
    /\ send' = Offered(Head(broadcast))
    /\ LET full == {c \in members : ~HasRoom(c)} IN
       members' = members \ full /\ closed' = closed \union full
    /\ UNCHANGED <<accepted, conn, reader, writer, joined, received, pings>>
\* A ping that does not fit is skipped.
Tick ==
    /\ pings < MaxPings /\ pings' = pings + 1
    /\ send' = Offered(Ping)
    /\ UNCHANGED <<broadcast, accepted, members, closed, conn, reader, writer, joined, received>>

\* The peer closes, vanishes or stalls: reads and writes fail, at the latest at
\* their deadlines.
Lose(c) ==
    /\ conn[c] = "open" /\ conn' = [conn EXCEPT ![c] = "lost"]
    /\ UNCHANGED <<broadcast, accepted, members, send, closed, reader, writer, joined,
                   received, pings>>
ReadFails(c) ==
    /\ reader[c] = "reading" /\ conn[c] \in {"lost", "closed"}
    /\ reader' = [reader EXCEPT ![c] = "leaving"]
    /\ UNCHANGED <<broadcast, accepted, members, send, closed, conn, writer, joined,
                   received, pings>>

\* The reader waits for the hub to take its client and closes the connection.
Unregister(c) ==
    /\ reader[c] = "leaving" /\ reader' = [reader EXCEPT ![c] = "done"]
    /\ members' = members \ {c}
    /\ closed' = IF c \in members THEN closed \union {c} ELSE closed
    /\ conn' = [conn EXCEPT ![c] = "closed"]
    /\ UNCHANGED <<broadcast, accepted, send, writer, joined, received, pings>>
\* A write on a connection that is not open may still succeed into the kernel's
\* buffer when the peer has just vanished, and fails once the connection is closed.
Write(c) ==
    /\ writer[c] = "writing" /\ send[c] # <<>> /\ conn[c] # "closed"
    /\ send' = [send EXCEPT ![c] = Tail(@)]
    /\ received' = [received EXCEPT ![c] = Append(@, Head(send[c]))]
    /\ UNCHANGED <<broadcast, accepted, members, closed, conn, reader, writer, joined, pings>>
WriteFails(c) ==
    /\ writer[c] = "writing" /\ send[c] # <<>> /\ conn[c] \in {"lost", "closed"}
    /\ send' = [send EXCEPT ![c] = Tail(@)]
    /\ writer' = [writer EXCEPT ![c] = "done"] /\ conn' = [conn EXCEPT ![c] = "closed"]
    /\ UNCHANGED <<broadcast, accepted, members, closed, reader, joined, received, pings>>

\* The channel is closed and empty: a close message, and the connection is closed.
WriterEnds(c) ==
    /\ writer[c] = "writing" /\ send[c] = <<>> /\ c \in closed
    /\ writer' = [writer EXCEPT ![c] = "done"] /\ conn' = [conn EXCEPT ![c] = "closed"]
    /\ UNCHANGED <<broadcast, accepted, members, send, closed, reader, joined, received, pings>>
\* The writer's own control ping finds the connection gone.
WriterPingFails(c) ==
    /\ writer[c] = "writing" /\ conn[c] \in {"lost", "closed"}
    /\ writer' = [writer EXCEPT ![c] = "done"] /\ conn' = [conn EXCEPT ![c] = "closed"]
    /\ UNCHANGED <<broadcast, accepted, members, send, closed, reader, joined, received, pings>>

WriterStep(c) == Write(c) \/ WriteFails(c) \/ WriterEnds(c) \/ WriterPingFails(c)
ReaderStep(c) == ReadFails(c) \/ Unregister(c)
HubNext ==
    \/ Broadcast \/ FanOut \/ Tick
    \/ \E c \in Clients : \/ Register(c) \/ StartPumps(c) \/ Lose(c)
                          \/ ReaderStep(c) \/ WriterStep(c)
HubSpec == HubInit /\ [][HubNext]_hubVars

--------------------------------------------------------------------------------
\* Types of the variables of the hub.
HubTypeOK ==
    /\ broadcast \in Seq(Nat) /\ accepted \in Nat /\ pings \in Nat
    /\ Len(broadcast) <= QueueCap
    /\ members \subseteq Clients /\ closed \subseteq Clients
    /\ send \in [Clients -> Seq(Nat)] /\ received \in [Clients -> Seq(Nat)]
    /\ joined \in [Clients -> Nat]
    /\ conn \in [Clients -> {"none", "open", "lost", "closed"}]
    /\ reader \in [Clients -> {"none", "reading", "leaving", "done"}]
    /\ writer \in [Clients -> {"none", "writing", "done"}]

\* What a browser was sent and still has queued; a sequence that holds the events from
\* j + 1 to n in order, pings anywhere.
Sent(c) == received[c] \o send[c]
Gapless(s, j, n) ==
    /\ \A a, b \in DOMAIN s : a < b /\ s[a] # Ping /\ s[b] # Ping => s[a] < s[b]
    /\ ToSet(s) \ {Ping} = (j + 1)..n

\* A client sees the accepted events from the moment it joined, in order and
\* without a gap: one that is too slow is cut off and never skips an event (Run's
\* eviction, the order of a client's channel, keepalives in the same channel).
\* As long as it is registered it misses none.
NoGap ==
    \A c \in Clients : writer[c] # "done" =>
        \E n \in joined[c]..FannedOut :
            /\ Gapless(Sent(c), joined[c], n)
            /\ c \in members => n = FannedOut

\* The hub sends only to channels that are open: a send to a closed one panics
\* and ends the server (Run deletes a client from the map as it closes it).
MembersAreOpen == members \cap closed = {}

\* A connection that is lost or evicted leaves nothing behind: the map, the reader
\* and the writer let it go (readPump's unregister, Run's close, writePump's end).
ClientsAreReaped ==
    \A c \in Clients :
        (conn[c] \in {"lost", "closed"} \/ (conn[c] # "none" /\ c \notin members))
            ~> (c \notin members /\ reader[c] = "done" /\ writer[c] = "done")
================================================================================

------------------------------ MODULE Delivery ------------------------------
(***************************************************************************)
(* distributed/event_bus.py behind the outbox (OutboxRelay): publish       *)
(* appends to a Redis stream; a process that subscribes makes the consumer *)
(* group and starts a consumer thread, which reads new entries for the     *)
(* group (XREADGROUP ">"), calls the handlers and acknowledges.  Nothing   *)
(* claims the entries of a consumer that died.  Nothing in libflow itself  *)
(* subscribes: whether and when a process does is left open.  One topic;   *)
(* the in-memory bus calls its handlers inside publish.                    *)
(***************************************************************************)
EXTENDS OutboxRelay, Sequences

CONSTANTS
    Consumers,     \* processes that may subscribe; their threads are all
                   \* named worker-1
    Count,         \* count=10 of xreadgroup
    MaxFaults      \* bound: crashes, failed marks and lost batches together

ASSUME DeliveryAssumption == Count \in Nat \ {0} /\ MaxFaults \in Nat

VARIABLES
    stream,    \* entries: event, times handled, acknowledged
    group,     \* the consumer group exists
    subscribed,   \* processes whose consumer thread runs
    lastId,    \* entries the group has given out
    inbox,     \* ids a consumer has read and not acknowledged, in order
    cstep,     \* what a consumer does next
    losses     \* batches lost by an error or a crash

threads == <<group, subscribed>>
consumers == <<threads, lastId, inbox, cstep, losses>>
all == <<relayVars, stream, consumers>>

DInit ==
    /\ RelayInit
    /\ stream = <<>> /\ lastId = 0 /\ losses = 0
    /\ group = FALSE /\ subscribed = {}
    /\ inbox = [c \in Consumers |-> <<>>]
    /\ cstep = [c \in Consumers |-> "read"]

(* XADD: what the relay's publish adds to the stream.                      *)
Appended ==
    stream' = IF delivered' = delivered THEN stream
              ELSE Append(stream, [event |-> CHOOSE e \in Events :
                                                  delivered'[e] # delivered[e],
                                   handled |-> 0, acked |-> FALSE])

(* subscribe: xgroup_create is tried once, with id 0, and what it raises   *)
(* is swallowed: the group is there already, or Redis is away and got the  *)
(* command or not.  The thread is started in any case.                     *)
Subscribe(c) ==
    /\ c \notin subscribed
    /\ group' \in IF up THEN {TRUE} ELSE {group, TRUE}
    /\ subscribed' = subscribed \cup {c}
    /\ UNCHANGED <<relayVars, stream, lastId, inbox, cstep, losses>>

(* stop_consumer, or the end of the process, between two batches.          *)
StopConsumer(c) ==
    /\ c \in subscribed /\ cstep[c] = "read"
    /\ subscribed' = subscribed \ {c}
    /\ UNCHANGED <<relayVars, stream, group, lastId, inbox, cstep, losses>>

(* The loop polls; without the group every xreadgroup raises.              *)
Polls(c) == c \in subscribed /\ group /\ cstep[c] = "read"

NextIds ==
    [i \in 1 .. (IF Len(stream) - lastId < Count THEN Len(stream) - lastId ELSE Count)
        |-> lastId + i]

(* Fault: the group's position is not moved.                               *)
ReadAgain(c) ==
    /\ Polls(c) /\ up /\ NextIds # <<>>
    /\ inbox' = [inbox EXCEPT ![c] = NextIds]
    /\ cstep' = [cstep EXCEPT ![c] = "handle"]
    /\ stream[Len(stream)].handled < 2
    /\ UNCHANGED <<relayVars, stream, threads, lastId, losses>>

Read(c) ==
    /\ Polls(c) /\ up /\ NextIds # <<>>
    /\ inbox' = [inbox EXCEPT ![c] = NextIds]
    /\ lastId' = lastId + Len(NextIds)
    /\ cstep' = [cstep EXCEPT ![c] = "handle"]
    /\ UNCHANGED <<relayVars, stream, threads, losses>>

(* xreadgroup raises after Redis has given the entries out.                *)
ReadLost(c) ==
    /\ Polls(c) /\ ~ up /\ NextIds # <<>>
    /\ lastId' = lastId + Len(NextIds)
    /\ losses' = losses + 1
    /\ UNCHANGED <<relayVars, stream, threads, inbox, cstep>>

(* Fault: the handlers are looked up under the stream's name.              *)
HandleNobody(c) ==
    /\ cstep[c] = "handle"
    /\ cstep' = [cstep EXCEPT ![c] = "ack"]
    /\ UNCHANGED <<relayVars, stream, threads, lastId, inbox, losses>>

(* The handlers run; what they raise is logged.                            *)
Handle(c) ==
    /\ cstep[c] = "handle"
    /\ stream' = [stream EXCEPT ![Head(inbox[c])].handled = @ + 1]
    /\ cstep' = [cstep EXCEPT ![c] = "ack"]
    /\ UNCHANGED <<relayVars, threads, lastId, inbox, losses>>

(* Fault: a new read after every entry.                                    *)
AckThenRead(c) ==
    /\ cstep[c] = "ack" /\ up
    /\ stream' = [stream EXCEPT ![Head(inbox[c])].acked = TRUE]
    /\ inbox' = [inbox EXCEPT ![c] = <<>>]
    /\ cstep' = [cstep EXCEPT ![c] = "read"]
    /\ UNCHANGED <<relayVars, threads, lastId, losses>>

Ack(c) ==
    /\ cstep[c] = "ack" /\ up
    /\ stream' = [stream EXCEPT ![Head(inbox[c])].acked = TRUE]
    /\ inbox' = [inbox EXCEPT ![c] = Tail(@)]
    /\ cstep' = [cstep EXCEPT ![c] = IF Len(inbox[c]) = 1 THEN "read" ELSE "handle"]
    /\ UNCHANGED <<relayVars, threads, lastId, losses>>

(* The consumer drops its batch and starts over with new entries.          *)
Abandon(c) ==
    /\ losses' = losses + 1
    /\ inbox' = [inbox EXCEPT ![c] = <<>>]
    /\ cstep' = [cstep EXCEPT ![c] = "read"]
    /\ UNCHANGED <<relayVars, group, lastId>>

(* xack raises, whether or not Redis got it.                               *)
AckError(c) ==
    /\ cstep[c] = "ack" /\ ~ up
    /\ stream' \in {stream, [stream EXCEPT ![Head(inbox[c])].acked = TRUE]}
    /\ Abandon(c)
    /\ UNCHANGED subscribed

(* The process dies in the middle of a batch.                              *)
ConsumerCrash(c) ==
    /\ cstep[c] # "read"
    /\ Abandon(c)
    /\ subscribed' = subscribed \ {c}
    /\ UNCHANGED stream

Consume(c) == Read(c) \/ Handle(c) \/ Ack(c)

DNext ==
    /\ \/ RelayNext /\ Appended /\ UNCHANGED consumers
       \/ \E c \in Consumers :
             \/ Subscribe(c) \/ StopConsumer(c)
             \/ Consume(c) \/ ReadLost(c) \/ AckError(c) \/ ConsumerCrash(c)
    /\ crashes' + dbErrors' + losses' <= MaxFaults

(* The relay threads, and the consumer threads that were started, keep     *)
(* polling; nobody has to subscribe.                                       *)
DSpec ==
    /\ DInit /\ [][DNext]_all
    /\ \A w \in Relays : WF_all(Work(w) /\ Appended /\ UNCHANGED consumers)
    /\ \A c \in Consumers : WF_all(Consume(c))
-----------------------------------------------------------------------------
(* Handlings of an event, over all its entries.                            *)
Handlings(e) ==
    {i \in 1 .. Len(stream) : stream[i].event = e /\ stream[i].handled > 0}

(* No entry is handled twice, by however many workers of the one consumer  *)
(* name; what a subscriber sees twice is an event the relay published      *)
(* twice, and its row has counted a failure for it.                        *)
HandledAsOftenAsCounted ==
    /\ \A i \in 1 .. Len(stream) : stream[i].handled <= 1
    /\ \A e \in Events : Cardinality(Handlings(e)) <= retry[e] + 1

Orphans ==
    {i \in 1 .. lastId : /\ ~ stream[i].acked
                         /\ \A c \in Consumers : \A j \in 1 .. Len(inbox[c]) : inbox[c][j] # i}

(* Entries that were given out, are not acknowledged and are in nobody's   *)
(* hands stay pending for good: never more than one batch for each error   *)
(* or crash, and none without.                                             *)
OrphansAreLosses == Cardinality(Orphans) <= Count * losses

(* An event that nobody will take up again: it was never published, and    *)
(* the relay has given it up or has claimed it and died; or a consumer was *)
(* given its entry and lost it.                                            *)
Stranded(e) ==
    \/ /\ delivered[e] = 0
       /\ \/ status[e] = "FAILED"
          \/ status[e] = "IN_FLIGHT" /\ \A w \in Relays : e \notin Owned(w)
    \/ \E i \in Orphans : stream[i].event = e

(* End to end, with crashes, errors and a broker that comes and goes: an   *)
(* event of a committed transaction is handled by a subscriber or stranded *)
(* in one of those three ways, provided that the broker is back for good   *)
(* at last, that some process subscribes for good and that the group was   *)
(* made when one did.  The relay "guarantees no event loss on server       *)
(* restart or broker reconnect"; what the restart of a relay or five       *)
(* failures strand is lost all the same.                                   *)
EveryEventHandled ==
    (<>[]up /\ \E c \in Consumers : <>[](group /\ c \in subscribed))
        => \A e \in Events :
              status[e] = "PENDING" ~> (Handlings(e) # {} \/ Stranded(e))
=============================================================================

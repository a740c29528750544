---------------------------- MODULE EventProcessor ----------------------------
(***************************************************************************)
(* The events package (src/internal/cache/redis_cache.go 284-747): an     *)
(* EventProcessor publishes APIEvents to Kafka or RabbitMQ and consumes    *)
(* them back through a handler.  One process (publisher and consumer       *)
(* share the EventProcessor), one partition of the consumed Kafka topic    *)
(* (messages are keyed by UserID, so one partition keeps a user's order),  *)
(* and the audit queue on the RabbitMQ side.                               *)
(*                                                                         *)
(* Kafka.  publishToKafka sends api events to Topics["api_events"], the    *)
(* only topic startKafkaConsumer reads; user and audit events go to other  *)
(* topics.  The consumer group is built from a nil config, i.e. sarama's   *)
(* defaults: Offsets.Initial = OffsetNewest and auto-commit on.  A         *)
(* session starts at the committed offset (the newest one if the group     *)
(* has none); ConsumeClaim hands each message to the handler and marks it  *)
(* only when the handler succeeded; marks are committed by the auto-commit *)
(* ticker and when the session ends.  Consume returns on a rebalance and   *)
(* the loop joins again.                                                   *)
(*                                                                         *)
(* RabbitMQ.  Publish has mandatory = false and no confirms: it returns    *)
(* nil whether the message was queued, dropped as unroutable, or sent to   *)
(* an exchange that does not exist (the broker then closes the channel).   *)
(* The consumer takes deliveries without auto-ack, Acks after the handler  *)
(* succeeds and Nacks with requeue otherwise.  When the channel closes the *)
(* broker requeues what was unacked; the goroutine then reads the closed   *)
(* deliveries channel and never consumes again.                            *)
(*                                                                         *)
(* A crash restarts the process: NewEventProcessor and StartConsumer run   *)
(* again, the Kafka session is lost with its uncommitted marks, and the    *)
(* broker requeues the old channel's unacked messages.                     *)
(***************************************************************************)
EXTENDS Integers, Sequences, FiniteSets, SequencesExt

CONSTANTS
    Providers,   \* EventConfig.Provider values explored
    Events,      \* the APIEvents published (each at most once)
    Kind,        \* Kind[e]: its EventType
    FreshGroup,  \* TRUE: the consumer group has no committed offset yet
    MaxRestarts  \* bound: crashes and rebalances

ASSUME Providers \subseteq {"kafka", "rabbitmq"} /\ FreshGroup \in BOOLEAN

\* sarama's "no committed offset" and the absent current delivery.
NoOffset == -1
None == "none"

VARIABLES
    provider,  \* the configured provider
    sent,      \* events PublishEvent was called with
    klog,      \* the consumed Kafka partition, oldest first (never popped)
    committed, \* the group's committed offset (next offset to read)
    kactive,   \* a group session is running
    kpos,      \* the session's next offset to hand to ConsumeClaim
    kmark,     \* the session's marked offset (not yet committed)
    ready,     \* RabbitMQ: messages queued in the audit queue
    unacked,   \* RabbitMQ: delivered on the channel, not acked
    inbox,     \* RabbitMQ: deliveries buffered in the client's channel
    cur,       \* RabbitMQ: the delivery the consumer goroutine is on
    curOk,     \* ... and whether the handler returned nil for it
    chan,      \* RabbitMQ: "open" or "closed"
    enqueued,  \* history: events ever put on the audit queue
    delivered, \* history: events ever given to the handler
    handled,   \* history: events the handler returned nil for
    stopped,   \* the consumer's context was canceled
    restarts

kafkaVars == <<klog, committed, kactive, kpos, kmark>>
rabbitVars == <<ready, unacked, inbox, cur, curOk, chan, enqueued>>
vars == <<provider, sent, kafkaVars, rabbitVars, delivered, handled, stopped, restarts>>

-----------------------------------------------------------------------------
(* Publishing                                                              *)

\* publishToKafka: user and audit events go to topics nobody consumes here.
KafkaConsumed(e) == Kind[e] \notin {"user_event", "audit_log"}

\* The copies of a message SendMessage leaves in the partition
\* (RequiredAcks = WaitForAll, Retry.Max = 3): none when it fails before
\* the write, one when it succeeds or fails after the write, two when an
\* internal retry repeats a write whose ack was lost.  The caller gets an
\* error or nil either way and does not retry.
Copies == 0..2

PublishKafka(e) ==
    /\ provider = "kafka"
    /\ \E n \in Copies :
         klog' = IF KafkaConsumed(e) THEN klog \o [i \in 1..n |-> e] ELSE klog
    /\ UNCHANGED <<committed, kactive, kpos, kmark, rabbitVars>>

\* publishToRabbitMQ: on an open channel Publish returns nil and the event
\* is queued, dropped as unroutable, or sent to a missing exchange, which
\* closes the channel; on a closed channel it returns an error.
PublishRabbit(e) ==
    /\ provider = "rabbitmq"
    /\ IF chan = "open"
         THEN \/ /\ ready' = ready \cup {e}
                 /\ enqueued' = enqueued \cup {e}
                 /\ UNCHANGED <<unacked, chan>>
              \/ UNCHANGED <<ready, enqueued, unacked, chan>>
              \/ /\ chan' = "closed"
                 /\ ready' = ready \cup unacked
                 /\ unacked' = {}
                 /\ UNCHANGED enqueued
         ELSE UNCHANGED <<ready, enqueued, unacked, chan>>
    /\ UNCHANGED <<kafkaVars, inbox, cur, curOk>>

\* PublishEvent: each event is published once, through the provider; a
\* failed publish is not retried.
PublishEvent(e) ==
    /\ e \notin sent
    /\ sent' = sent \cup {e}
    /\ PublishKafka(e) \/ PublishRabbit(e)
    /\ UNCHANGED <<provider, delivered, handled, stopped, restarts>>

-----------------------------------------------------------------------------
(* Kafka consumer group                                                    *)

\* A Join that resumes at the end of the partition whatever was committed.
JoinAtNewest == Len(klog)

\* A session's first offset: the committed one, or OffsetNewest.
JoinOffset == IF committed = NoOffset THEN Len(klog) ELSE committed

\* group.Consume: a new session; its offset manager starts at the commit.
Join ==
    /\ provider = "kafka" /\ ~kactive /\ ~stopped
    /\ kactive' = TRUE
    /\ kpos' = JoinOffset
    /\ kmark' = committed
    /\ UNCHANGED <<klog, committed, delivered, handled, restarts>>

\* A mark one past the offset MarkMessage gives (offset + 1 twice).
MarkPastEnd(m, o) == o + 1

\* MarkOffset keeps the highest offset marked.
Mark(m, o) == IF o > m THEN o ELSE m

\* ConsumeClaim's loop body for the message at offset kpos: unmarshal and
\* handler; only a nil error marks it (MarkMessage marks offset + 1).
ConsumeClaim ==
    /\ provider = "kafka" /\ kactive
    /\ kpos < Len(klog)
    /\ LET e == klog[kpos + 1] IN
         /\ delivered' = delivered \cup {e}
         /\ \E ok \in BOOLEAN :
              /\ handled' = IF ok THEN handled \cup {e} ELSE handled
              /\ kmark' = IF ok THEN Mark(kmark, kpos + 1) ELSE kmark
    /\ kpos' = kpos + 1
    /\ UNCHANGED <<klog, committed, kactive, restarts>>

\* The auto-commit ticker (Offsets.AutoCommit, every second).
AutoCommit ==
    /\ provider = "kafka" /\ kactive
    /\ kmark # committed
    /\ committed' = kmark
    /\ UNCHANGED <<klog, kactive, kpos, kmark, delivered, handled, restarts>>

\* A rebalance: Consume returns, the session's offset manager flushes the
\* marks, and the loop joins again.
EndSession ==
    /\ provider = "kafka" /\ kactive
    /\ restarts < MaxRestarts
    /\ restarts' = restarts + 1
    /\ kactive' = FALSE
    /\ committed' = kmark
    /\ UNCHANGED <<klog, kpos, kmark, delivered, handled>>

KafkaConsumer ==
    /\ Join \/ ConsumeClaim \/ AutoCommit \/ EndSession
    /\ UNCHANGED <<provider, sent, rabbitVars, stopped>>

-----------------------------------------------------------------------------
(* RabbitMQ consumer                                                       *)

\* The broker pushes a ready message to the consumer (no prefetch limit).
Deliver(e) ==
    /\ provider = "rabbitmq" /\ chan = "open" /\ ~stopped
    /\ e \in ready
    /\ ready' = ready \ {e}
    /\ unacked' = unacked \cup {e}
    /\ inbox' = inbox \cup {e}
    /\ UNCHANGED <<cur, curOk, chan, enqueued, delivered, handled>>

\* case msg := <-msgs: unmarshal and run the handler on a delivery.
Receive(e) ==
    /\ provider = "rabbitmq" /\ cur = None /\ ~stopped
    /\ e \in inbox
    /\ inbox' = inbox \ {e}
    /\ cur' = e
    /\ delivered' = delivered \cup {e}
    /\ \E ok \in BOOLEAN :
         /\ curOk' = ok
         /\ handled' = IF ok THEN handled \cup {e} ELSE handled
    /\ UNCHANGED <<ready, unacked, chan, enqueued>>

\* A Nack that drops the message instead of requeueing it.
NackDrop(e) == ready

\* msg.Nack(false, true): the broker requeues the message.
NackRequeue(e) == ready \cup {e}

\* msg.Ack(false) after a nil handler error, msg.Nack(false, true) after an
\* error.  On a closed channel both fail, and the errors are ignored.
Settle ==
    /\ provider = "rabbitmq" /\ cur # None
    /\ IF chan = "open"
         THEN /\ unacked' = unacked \ {cur}
              /\ ready' = IF curOk THEN ready ELSE NackRequeue(cur)
         ELSE UNCHANGED <<ready, unacked>>
    /\ cur' = None
    /\ UNCHANGED <<inbox, curOk, chan, enqueued, delivered, handled>>

\* The connection or channel fails: the broker requeues the unacked
\* messages; the client keeps what it had buffered.
ChannelClose ==
    /\ provider = "rabbitmq" /\ chan = "open"
    /\ chan' = "closed"
    /\ ready' = ready \cup unacked
    /\ unacked' = {}
    /\ UNCHANGED <<inbox, cur, curOk, enqueued, delivered, handled>>

RabbitConsumer ==
    /\ \/ \E e \in Events : Deliver(e) \/ Receive(e)
       \/ Settle
       \/ ChannelClose
    /\ UNCHANGED <<provider, sent, kafkaVars, stopped, restarts>>

-----------------------------------------------------------------------------

\* ctx is canceled: the consumer goroutine returns (Kafka: group.Close ends
\* the session and commits).  Deliveries it holds stay unacked.
Cancel ==
    /\ ~stopped
    /\ stopped' = TRUE
    /\ IF provider = "kafka" /\ kactive
         THEN /\ kactive' = FALSE
              /\ committed' = kmark
              /\ UNCHANGED <<klog, kpos, kmark>>
         ELSE UNCHANGED kafkaVars
    /\ UNCHANGED <<provider, sent, rabbitVars, delivered, handled, restarts>>

\* The process dies and starts again with a new EventProcessor and
\* StartConsumer.
Crash ==
    /\ restarts < MaxRestarts
    /\ restarts' = restarts + 1
    /\ kactive' = FALSE
    /\ ready' = ready \cup unacked
    /\ unacked' = {}
    /\ inbox' = {}
    /\ cur' = None
    /\ chan' = "open"
    /\ stopped' = FALSE
    /\ UNCHANGED <<provider, sent, klog, committed, kpos, kmark, curOk,
                   enqueued, delivered, handled>>

Init ==
    /\ provider \in Providers
    /\ sent = {}
    /\ klog = <<>>
    /\ committed = IF FreshGroup THEN NoOffset ELSE 0
    /\ kactive = FALSE
    /\ kpos = 0
    /\ kmark = committed
    /\ ready = {} /\ unacked = {} /\ inbox = {}
    /\ cur = None /\ curOk = FALSE
    /\ chan = "open"
    /\ enqueued = {} /\ delivered = {} /\ handled = {}
    /\ stopped = FALSE
    /\ restarts = 0

Next ==
    \/ \E e \in Events : PublishEvent(e)
    \/ KafkaConsumer
    \/ RabbitConsumer
    \/ Cancel
    \/ Crash

Spec == Init /\ [][Next]_vars

\* The Consume loop joins again at once, and ConsumeClaim ranges over the
\* claim's messages as sarama fetches them: neither waits on anything else.
FairSpec ==
    /\ Spec
    /\ WF_vars(KafkaConsumer /\ Join)
    /\ WF_vars(KafkaConsumer /\ ConsumeClaim)

-----------------------------------------------------------------------------
(* Properties                                                              *)

\* Offsets stay inside the partition: a session never reads, marks or
\* commits past the last message written.
TypeOK ==
    /\ provider \in Providers
    /\ sent \subseteq Events
    /\ klog \in Seq(Events)
    /\ committed \in {NoOffset} \cup 0..Len(klog)
    /\ kactive \in BOOLEAN
    /\ kpos \in 0..Len(klog)
    /\ kmark \in {NoOffset} \cup 0..Len(klog)
    /\ {ready, unacked, inbox, enqueued, delivered, handled} \subseteq SUBSET Events
    /\ cur \in Events \cup {None} /\ curOk \in BOOLEAN
    /\ chan \in {"open", "closed"}
    /\ stopped \in BOOLEAN
    /\ restarts \in 0..MaxRestarts

\* An event the broker will never hand out again: on Kafka, every copy of
\* it lies below the committed offset; on RabbitMQ, it was queued and is
\* neither ready nor unacked any more.
Settled(e) ==
    IF provider = "kafka"
      THEN /\ e \in ToSet(klog)
           /\ \A o \in 1..Len(klog) : klog[o] = e => o <= committed
      ELSE e \in enqueued \ (ready \cup unacked)

\* At-least-once consumption: the broker lets go of an event only after
\* the handler returned nil for it.  A failed event must come back, which
\* is what the RabbitMQ consumer's Nack(requeue) and the Kafka consumer's
\* missing MarkMessage are there for; crashes and channel failures must
\* not lose an event either.
NoEventLost == \A e \in Events : Settled(e) => e \in handled

\* The RabbitMQ queue as the broker sees it: the ready messages and those
\* delivered but not yet acknowledged; and what the handler accepted.
RabbitPending == IF provider = "rabbitmq" THEN ready \cup unacked ELSE {}

RabbitHandled == IF provider = "rabbitmq" THEN handled ELSE {}

RabbitQueue == INSTANCE AtLeastOnce WITH
    pending <- RabbitPending, handled <- RabbitHandled

\* The RabbitMQ consumer implements the at-least-once queue: through
\* Nacks with requeue, channel failures (which requeue the unacked
\* messages while the goroutine still holds buffered deliveries whose
\* Acks then fail silently) and crashes, an event leaves the queue only
\* after the handler returned nil for it, the handler only ever runs on an
\* event the queue still holds, and the queue gains only published events.
RabbitAtLeastOnce == RabbitQueue!Spec

\* Kafka: every event written to the consumed partition of a group with a
\* committed offset is eventually handed to the handler, across crashes
\* and rebalances, unless the consumer's context is canceled.
KafkaEventuallyDelivered ==
    \A e \in Events :
        (provider = "kafka" /\ e \in ToSet(klog)) ~> (e \in delivered \/ stopped)

=============================================================================

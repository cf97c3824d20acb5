---------------------------- MODULE KafkaProducer ----------------------------
(***************************************************************************)
(* Kafka::Producer::publish (src/core-cpp/kafka/src/Producer.cc, lines     *)
(* 19-42).  Messages for a (domain, service) pair are built with one       *)
(* cppkafka::MessageBuilder, created on first use and kept in topicLookup  *)
(* (a shared_ptr, so what publish sets on it stays set).  The builder is   *)
(* abstracted to its topic and its key; the payload is not modelled.       *)
(* An empty partKey is NoKey.                                              *)
(***************************************************************************)
EXTENDS Naturals, Sequences

CONSTANTS Domains, Services, Keys, NoKey, MaxPublish

ASSUME NoKey \notin Keys /\ MaxPublish \in Nat

Pairs == Domains \X Services

VARIABLES topicLookup,  \* pair -> builder [topic, key], DOMAIN = cached pairs
          produced      \* prod->produce calls: [pair, partKey, topic, key]

vars == <<topicLookup, produced>>

(* ProcessHandler::getTopicName(domainId, serviceId): one topic per pair.  *)
TopicName(p) == p

Init ==
  /\ topicLookup = [p \in {} |-> [topic |-> p, key |-> NoKey]]
  /\ produced = <<>>

(* publish(domainId, serviceId, data, partKey): find or create the         *)
(* builder, set the key when partKey is not empty, set the payload and     *)
(* produce the message.                                                    *)
Publish(d, s, partKey) ==
  LET p == <<d, s>>
      b0 == IF p \in DOMAIN topicLookup THEN topicLookup[p]
            ELSE [topic |-> TopicName(p), key |-> NoKey]
      b == IF partKey # NoKey THEN [b0 EXCEPT !.key = partKey] ELSE b0
  IN  /\ Len(produced) < MaxPublish
      /\ topicLookup' = [q \in DOMAIN topicLookup \cup {p} |-> IF q = p THEN b ELSE topicLookup[q]]
      /\ produced' = Append(produced, [pair |-> p, partKey |-> partKey, topic |-> b.topic, key |-> b.key])

Next ==
  \/ \E d \in Domains, s \in Services, k \in Keys \cup {NoKey} : Publish(d, s, k)
  \/ Len(produced) = MaxPublish /\ UNCHANGED vars

Spec == Init /\ [][Next]_vars

-----------------------------------------------------------------------------
TypeOK ==
  /\ DOMAIN topicLookup \subseteq Pairs
  /\ \A p \in DOMAIN topicLookup : topicLookup[p].key \in Keys \cup {NoKey}
  /\ Len(produced) <= MaxPublish

(* A message published without a key (partKey empty) goes out without one. *)
KeylessMessageHasNoKey ==
  \A i \in 1..Len(produced) :
    produced[i].partKey = NoKey => produced[i].key = NoKey
=============================================================================

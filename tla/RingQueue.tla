------------------------------ MODULE RingQueue ------------------------------
(***************************************************************************)
(* What the ring promises its users: a bounded first-in first-out queue of *)
(* messages between producers and consumers that come and go, with an end  *)
(* of stream a consumer may see only when the queue is empty and no        *)
(* producer is there.                                                      *)
(***************************************************************************)
EXTENDS Integers, Sequences, FiniteSets

CONSTANTS Producers, Consumers, Item,
          Weight(_),       \* bytes an item takes
          Capacity         \* bytes of the ring

VARIABLES queue,       \* items put and not yet got
          used,        \* bytes they take
          received,    \* items got, in order
          producers, consumers, ended
qvars == <<queue, used, received, producers, consumers, ended>>

QInit == /\ queue = <<>> /\ used = 0 /\ received = <<>>
         /\ producers = {} /\ consumers = {} /\ ended = {}

Join(p) == /\ p \in Producers \ producers
           /\ producers' = producers \cup {p}
           /\ UNCHANGED <<queue, used, received, consumers, ended>>
Leave(p) == /\ p \in producers
            /\ producers' = producers \ {p}
            /\ UNCHANGED <<queue, used, received, consumers, ended>>
Attach(c) == /\ c \in Consumers \ consumers
             /\ consumers' = consumers \cup {c}
             /\ UNCHANGED <<queue, used, received, producers, ended>>
Detach(c) == /\ c \in consumers
             /\ consumers' = consumers \ {c}
             /\ UNCHANGED <<queue, used, received, producers, ended>>

(* The ring never fills to the last byte: full would look like empty.      *)
Put(i) == /\ producers # {}
          /\ used + Weight(i) < Capacity
          /\ used' = used + Weight(i)
          /\ queue' = Append(queue, i)
          /\ UNCHANGED <<received, producers, consumers, ended>>
Get == /\ consumers # {} /\ queue # <<>>
       /\ received' = Append(received, Head(queue))
       /\ queue' = Tail(queue)
       /\ used' = used - Weight(Head(queue))
       /\ UNCHANGED <<producers, consumers, ended>>
SeeEnd(c) == /\ c \in consumers
             /\ queue = <<>> /\ producers = {}
             /\ ended' = ended \cup {c}
             /\ UNCHANGED <<queue, used, received, producers, consumers>>

QNext == \/ \E p \in Producers : Join(p) \/ Leave(p)
         \/ \E c \in Consumers : Attach(c) \/ Detach(c) \/ SeeEnd(c)
         \/ \E i \in Item : Put(i)
         \/ Get
QSpec == QInit /\ [][QNext]_qvars
=============================================================================

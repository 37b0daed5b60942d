--------------------------- MODULE StdioTransport ---------------------------
(***************************************************************************)
(* A StdioProducer and a StdioConsumer with the serialization on both      *)
(* sides of their pipe and the registry of the reading process: StdioPipe  *)
(* with messages that are documents and payloads.                          *)
(***************************************************************************)
EXTENDS Serialize, StdioPipe

CONSTANTS Objects,            \* objects a program pushes
          RawMessages,        \* what it pushes past the serialization
          Registrations       \* <<type_name, deserializer, version>>

VARIABLE popped               \* history: what pop() made of each message

registry == <<registry_, initialized>>
vars == <<pipe, popped, registry>>

-----------------------------------------------------------------------------
(* The sizes of a message: of the metadata document its attributes, items  *)
(* included, and of the payload its bytes.                                 *)
RECURSIVE DocumentSize(_)
DocumentSize(metadata) ==
  IF metadata = NotJson THEN 0
  ELSE LET items == Attribute(metadata, "items", <<>>)
       IN Cardinality(DOMAIN metadata)
          + FoldSeq(+, 0, [i \in DOMAIN items |->
                            DocumentSize(Attribute(items[i], "metadata", <<>>))])
PayloadSizeOf(m) == Len(m.payload)

(* What the objects are pushed as.                                         *)
Serialized == [o \in Objects |-> serialize(o)]

ASSUME MessagesAssumption ==
  {Serialized[o] : o \in Objects} \cup RawMessages \subseteq Messages

push(o) == push_raw(Serialized[o])

(* pop(): an object without data if deserialization gives null, and        *)
(* DeserializationFailed if it throws; the frame is gone in any case.      *)
Pop ==
  /\ PopMessage
  /\ LET m == Head(output).message
         parses == m.metadata # NotJson
     IN /\ registry_' = IF parses THEN register_builtin_types ELSE registry_
        /\ initialized' = (initialized \/ parses)
        /\ popped' = Append(popped, deserialize(registry_', m.metadata, m.payload))

(* The reading program registers a deserializer, at any time.              *)
Register(r) ==
  /\ register_type(r[1], r[2], r[3])
  /\ UNCHANGED <<pipe, popped>>

-----------------------------------------------------------------------------
Init ==
  /\ PipeInit
  /\ registry_ = <<>> /\ initialized = FALSE /\ popped = <<>>

(* What does not touch the registry.                                       *)
Quiet ==
  \/ \E o \in Objects : push(o) \/ ExitWriting(Serialized[o])
  \/ \E m \in RawMessages : push_raw(m) \/ ExitWriting(m)
  \/ close \/ ExitClosing \/ Exit
  \/ PopEof \/ PopEos \/ PopCut

Next ==
  \/ Quiet /\ UNCHANGED <<popped, registry>>
  \/ Pop
  \/ \E r \in Registrations : Register(r)

Spec == Init /\ [][Next]_vars /\ PipeFairness

-----------------------------------------------------------------------------
(***************************************************************************)
(* Properties                                                              *)
(***************************************************************************)
(* The lists the constructor of ListData accepts, at every level.          *)
RECURSIVE Acceptable(_)
Acceptable(o) ==
  o.type = "list" =>
    /\ Len(o.items) \in 1 .. MAX_ITEMS /\ compute_list_depth(o) <= MAX_DEPTH
    /\ \A i \in DOMAIN o.items : Acceptable(o.items[i])

(* What the i-th pop of a message was pushed as.                           *)
PushedAs(i) == {o \in Objects : Serialized[o] = sent[i]}

(* An object comes out of pop() as it went into push(), nested lists,      *)
(* shapes and sizes included, in the order of the pushes; a list beyond    *)
(* the limits, which only a list built item by item can be, never comes    *)
(* out (README.md:199, "capped at 10 items and 10 levels deep").           *)
ObjectsArrive ==
  \A i \in DOMAIN popped : \A o \in PushedAs(i) :
    IF Acceptable(o) THEN popped[i] = Contents(o) ELSE popped[i] \in {Null, Thrown}

RECURSIVE Leaves(_)
Leaves(o) ==
  IF o.type = "list" THEN FlattenSeq([i \in DOMAIN o.items |-> Leaves(o.items[i])])
  ELSE data(o)

(* Whatever deserializers are registered and whatever document came with   *)
(* it, a payload is handed on whole: its bytes are in the leaves of the    *)
(* object, once and in order, or there is no object.                       *)
PayloadsIntact ==
  \A i \in DOMAIN popped :
    popped[i] \in {Null, Thrown} \/ Leaves(popped[i]) = sent[i].payload

(* The two ways to deserialize what push() sent agree: the same contents,  *)
(* or neither makes an object.                                             *)
ViewsAgree ==
  \A i \in DOMAIN popped : \A o \in PushedAs(i) :
    LET zero_copy == deserialize_zero_copy(sent[i].metadata, sent[i].payload)
    IN IF popped[i] \in {Null, Thrown} THEN zero_copy = Thrown
       ELSE Contents(zero_copy) = popped[i]

(* README.md:213, "seeded with built-in handlers [...] so you can extend   *)
(* or override", and ARCHITECTURE.md:367, "Callers register their custom   *)
(* deserializers before consuming data": what a program registered is not  *)
(* undone by the seeding.                                                  *)
SeedingKeepsOverrides ==
  [][initialized' # initialized =>
       \A key \in DOMAIN registry_ : registry_'[key] = registry_[key]]_vars
=============================================================================

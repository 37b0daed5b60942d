----------------------------- MODULE Serialize -----------------------------
(***************************************************************************)
(* Objects, the messages they are serialized to, and the two ways back:    *)
(* deserialize copies the payload, deserialize_zero_copy makes views of    *)
(* it.  These are operators over values; nothing is proved about them, so  *)
(* they recurse on nested lists directly.                                  *)
(*                                                                         *)
(* A payload is a sequence of small numbers.  A metadata document is a     *)
(* record of its attributes; the conversion of the document to a map from  *)
(* strings to strings, and the parsing of "count" and "items" out of such  *)
(* strings, give the attributes back and are left out.                     *)
(***************************************************************************)
EXTENDS Integers, FiniteSetsExt, SequencesExt, TypeRegistry

CONSTANTS MAX_ITEMS, MAX_DEPTH

ASSUME LimitsAssumption == MAX_ITEMS \in Nat \ {0} /\ MAX_DEPTH \in Nat \ {0}

(* What deserialization may give instead of an object: nullptr, or an      *)
(* exception.                                                              *)
Null == [type |-> "null"]
Thrown == [type |-> "exception"]
(* Metadata that no JSON parser accepts, the empty string for one.         *)
NotJson == [json |-> FALSE]

-----------------------------------------------------------------------------
(* An object that owns its bytes has no view, one made by zero copy has no *)
(* bytes.                                                                  *)
Owning(type, bytes, attrs) ==
  [type |-> type, bytes |-> bytes, view |-> {}, attrs |-> attrs]
View(type, slice, attrs) ==
  [type |-> type, bytes |-> <<>>, view |-> {slice}, attrs |-> attrs]

data(o) == IF o.view # {} THEN CHOOSE slice \in o.view : TRUE ELSE o.bytes

(* The text of a text or JSON object is a copy in both modes.              *)
TextOf(o) == data(o)

RECURSIVE compute_list_depth(_)
compute_list_depth(list) ==
  1 + Max({0} \cup {compute_list_depth(list.items[i]) :
                      i \in {j \in DOMAIN list.items : list.items[j].type = "list"}})

(* The constructor of a list throws where the limits are exceeded; the     *)
(* default constructor and its public items do not.                        *)
RawList(items) == [type |-> "list", items |-> items]
ListData(items) ==
  IF Len(items) \in 1 .. MAX_ITEMS /\ compute_list_depth(RawList(items)) <= MAX_DEPTH
  THEN RawList(items) ELSE Thrown

(* Shapes and sizes travel as text: a number stands for its digits.        *)
OPEN == -1
COMMA == -2
CLOSE == -3
format_shape(shape) ==
  <<OPEN>> \o FlattenSeq([i \in DOMAIN shape |->
                            IF i = 1 THEN <<shape[i]>> ELSE <<COMMA, shape[i]>>])
    \o <<CLOSE>>
format_size(width, height) == format_shape(<<width, height>>)

(* Everything but digits and commas is dropped.                            *)
parse_shape(text) == SelectSeq(text, LAMBDA c : c >= 0)
(* Mutant: height and width.                                               *)
parse_size_Swapped(text) ==
  LET dims == parse_shape(text)
  IN IF Len(dims) >= 2 THEN <<dims[2], dims[1]>> ELSE <<0, 0>>

parse_size(text) ==
  LET dims == parse_shape(text)
  IN IF Len(dims) >= 2 THEN <<dims[1], dims[2]>> ELSE <<0, 0>>

-----------------------------------------------------------------------------
(***************************************************************************)
(* serialize()                                                             *)
(***************************************************************************)
Message(metadata, payload) == [metadata |-> metadata, payload |-> payload]

SerializeBytes(o) == Message([type |-> "bytes"], o.bytes)
SerializeText(o) ==
  Message([type |-> o.type, encoding |-> o.attrs.encoding], TextOf(o))
SerializeImage(o) ==
  Message([type |-> "image", mode |-> o.attrs.mode,
           size |-> format_size(o.attrs.width, o.attrs.height)], o.bytes)
SerializeArray(o) ==
  Message([type |-> "ndarray", shape |-> format_shape(o.attrs.shape),
           dtype |-> o.attrs.dtype], o.bytes)

(* The metadata of the items goes into the metadata of the list, their     *)
(* payloads one after the other into its payload.                          *)
SerializeList(parts) ==
  Message([type |-> "list", version |-> "1.0", count |-> Len(parts),
           items |-> [i \in DOMAIN parts |->
                       [metadata |-> parts[i].metadata,
                        payload_size |-> Len(parts[i].payload)]]],
          FlattenSeq([i \in DOMAIN parts |-> parts[i].payload]))

RECURSIVE serialize(_)
serialize(o) ==
  CASE o.type = "bytes" -> SerializeBytes(o)
    [] o.type \in {"text", "json"} -> SerializeText(o)
    [] o.type = "image" -> SerializeImage(o)
    [] o.type = "ndarray" -> SerializeArray(o)
    [] o.type = "list" -> SerializeList([i \in DOMAIN o.items |-> serialize(o.items[i])])

-----------------------------------------------------------------------------
(***************************************************************************)
(* deserialize(), owning                                                   *)
(***************************************************************************)
DeserializeBytes(payload) == Owning("bytes", payload, <<>>)
(* Mutant: the encoding of the document is not looked at.                  *)
DeserializeText_Default(type, metadata, payload) ==
  Owning(type, payload, [encoding |-> "utf-8"])
DeserializeText(type, metadata, payload) ==
  Owning(type, payload, [encoding |-> Attribute(metadata, "encoding", "utf-8")])
DeserializeImage(metadata, payload) ==
  IF "size" \notin DOMAIN metadata THEN Null
  ELSE LET size == parse_size(metadata.size)
       IN Owning("image", payload, [mode |-> Attribute(metadata, "mode", "RGB"),
                                    width |-> size[1], height |-> size[2]])
DeserializeArray(metadata, payload) ==
  IF {"shape", "dtype"} \subseteq DOMAIN metadata
  THEN Owning("ndarray", payload, [shape |-> parse_shape(metadata.shape),
                                   dtype |-> metadata.dtype])
  ELSE Null

(* The header of a list is usable.                                         *)
ListHeaderOK(metadata) ==
  /\ {"count", "items"} \subseteq DOMAIN metadata
  /\ metadata.count \in 1 .. MAX_ITEMS
  /\ Len(metadata.items) = metadata.count

(* Where the payload of item i begins.                                     *)
Offset(entries, i) ==
  FoldSeq(+, 0, [j \in 1 .. i - 1 |-> entries[j].payload_size])
Slice(payload, offset, size) == SubSeq(payload, offset + 1, offset + size)

(* Mutant: bytes after the last item are dropped.                          *)
Exhausted_Within(entries, payload) ==
  Offset(entries, Len(entries) + 1) <= Len(payload)
Exhausted(entries, payload) ==
  Offset(entries, Len(entries) + 1) = Len(payload)

RECURSIVE deserialize(_, _, _)

(* The first item that cannot be read decides: its exception passes        *)
(* through, anything else makes the list null.                             *)
DeserializeList(registry, metadata, payload) ==
  IF ~ListHeaderOK(metadata) THEN Null
  ELSE
  LET entries == metadata.items
      WellFormed(i) == {"metadata", "payload_size"} \subseteq DOMAIN entries[i]
      Reached == {i \in DOMAIN entries : \A j \in 1 .. i : WellFormed(j)}
      Read(i) ==
        IF Offset(entries, i) + entries[i].payload_size > Len(payload) THEN Null
        ELSE deserialize(registry, entries[i].metadata,
               Slice(payload, Offset(entries, i), entries[i].payload_size))
      bad == {i \in Reached : Read(i) \in {Null, Thrown}}
  IN CASE bad # {} -> Read(Min(bad))
       [] Reached # DOMAIN entries -> Null
       [] bad = {} /\ Reached = DOMAIN entries ->
            IF Exhausted(entries, payload)
            THEN ListData([i \in DOMAIN entries |-> Read(i)]) ELSE Null

(* A registered deserializer other than the builtin ones: it makes an      *)
(* object of its own, or returns null.                                     *)
RunCustom(deserializer, payload) ==
  IF deserializer = "broken" THEN Null ELSE Owning(deserializer, payload, <<>>)

deserialize(registry, metadata, payload) ==
  IF metadata = NotJson THEN Thrown
  ELSE IF "type" \notin DOMAIN metadata THEN Null
  ELSE
  LET deserializer == Deserializer(registry, metadata)
  IN CASE deserializer = "bytes" -> DeserializeBytes(payload)
       [] deserializer \in {"text", "json"} ->
            DeserializeText(deserializer, metadata, payload)
       [] deserializer = "image" -> DeserializeImage(metadata, payload)
       [] deserializer = "ndarray" -> DeserializeArray(metadata, payload)
       [] deserializer = "list" -> DeserializeList(registry, metadata, payload)
       [] OTHER -> RunCustom(deserializer, payload)

-----------------------------------------------------------------------------
(***************************************************************************)
(* deserialize(), zero copy: no registry, defaults instead of null, and no *)
(* check that an item lies within the payload.                             *)
(***************************************************************************)
RECURSIVE deserialize_zero_copy(_, _)
deserialize_zero_copy(metadata, payload) ==
  LET type == Attribute(metadata, "type", "unknown")
      listed == Attribute(metadata, "items", <<>>)
      entries == [i \in DOMAIN listed |->
                   [metadata |-> Attribute(listed[i], "metadata", <<>>),
                    payload_size |-> Attribute(listed[i], "payload_size", 0)]]
      items == [i \in DOMAIN entries |->
                 deserialize_zero_copy(entries[i].metadata,
                   Slice(payload, Offset(entries, i), entries[i].payload_size))]
      size == parse_size(Attribute(metadata, "size", <<0, COMMA, 0>>))
  IN CASE type = "list" ->
            IF \/ Attribute(metadata, "count", 0) # Len(entries)
               \/ \E i \in DOMAIN items : items[i] = Thrown
            THEN Thrown ELSE ListData(items)
       [] type \in {"ndarray", "numpy"} ->
            View("ndarray", payload,
                 [shape |-> parse_shape(Attribute(metadata, "shape", <<>>)),
                  dtype |-> Attribute(metadata, "dtype", "uint8")])
       [] type = "json" -> View("json", payload, [encoding |-> "utf-8"])
       [] type = "text" ->
            View("text", payload,
                 [encoding |-> Attribute(metadata, "encoding", "utf-8")])
       [] type = "image" ->
            View("image", payload, [mode |-> Attribute(metadata, "mode", "RGB"),
                                    width |-> size[1], height |-> size[2]])
       [] OTHER -> View("bytes", payload, <<>>)

-----------------------------------------------------------------------------
(* What an object holds, in whichever mode.                                *)
RECURSIVE Contents(_)
Contents(o) ==
  CASE o.type = "list" -> RawList([i \in DOMAIN o.items |-> Contents(o.items[i])])
    [] o.type \in {"null", "exception"} -> o
    [] OTHER -> Owning(o.type, data(o), o.attrs)
=============================================================================

---------------------------- MODULE TypeRegistry ----------------------------
(***************************************************************************)
(* The registry of deserializers of one process, and the lookup of the     *)
(* deserializer of a message.  A deserializer is a name; a metadata        *)
(* document is a record with the attributes it has.                        *)
(***************************************************************************)
EXTENDS Sequences, TLC

CONSTANT SlashNames       \* the type names in use that begin with '/'

VARIABLES registry_,      \* from keys to deserializers
          initialized     \* the builtin types have been registered

None == "none"
BuiltinTypes == {"bytes", "text", "json", "image", "ndarray", "list"}

Attribute(metadata, key, default) ==
  IF key \in DOMAIN metadata THEN metadata[key] ELSE default

make_key(type_name, version) ==
  IF version = "" THEN type_name ELSE type_name \o "@" \o version

(* Overwrites; throws, and changes nothing, for an invalid name.           *)
register_type(type_name, deserializer, version) ==
  /\ type_name # "" /\ type_name \notin SlashNames
  /\ registry_' = (make_key(type_name, version) :> deserializer) @@ registry_
  /\ UNCHANGED initialized

get_deserializer(registry, type_name, version) ==
  Attribute(registry, make_key(type_name, version), None)

(* What the registry is once the builtin types are in: they are registered *)
(* by the first message a process deserializes, over what is there.        *)
register_builtin_types ==
  IF initialized THEN registry_
  ELSE [type \in BuiltinTypes |-> type] @@ registry_

(* Type and version, then the type alone, then plain bytes.                *)
Deserializer(registry, metadata) ==
  LET versioned == get_deserializer(registry, metadata.type,
                                    Attribute(metadata, "version", ""))
      plain == get_deserializer(registry, metadata.type, "")
  IN CASE versioned # None -> versioned
       [] plain # None -> plain
       [] OTHER -> "bytes"
=============================================================================

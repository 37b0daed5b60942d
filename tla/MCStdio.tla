------------------------------ MODULE MCStdio ------------------------------
(* Instances of StdioTransport for TLC.  A list of more than two items or  *)
(* two levels is beyond the limits of these instances.                     *)
EXTENDS StdioTransport

Blob == Owning("bytes", <<1, 2>>, <<>>)
Nothing == Owning("bytes", <<>>, <<>>)
Text == Owning("text", <<3>>, [encoding |-> "latin-1"])
Json == Owning("json", <<4>>, [encoding |-> "utf-8"])
Picture == Owning("image", <<5>>, [mode |-> "L", width |-> 2, height |-> 1])
Scalar == Owning("ndarray", <<6>>, [shape |-> <<>>, dtype |-> "u1"])
Matrix == Owning("ndarray", <<7, 8>>, [shape |-> <<1, 2>>, dtype |-> "u1"])

Leaf == {Blob, Nothing, Text, Json, Picture, Scalar, Matrix}
Lists == {RawList(<<Blob, Text>>),
          RawList(<<Nothing, Matrix>>),
          RawList(<<RawList(<<Text, Blob>>), Json>>),
          RawList(<<>>),                                        \* empty
          RawList(<<Blob, Nothing, Text>>),                     \* too long
          RawList(<<RawList(<<RawList(<<Blob>>)>>)>>),          \* too deep
          RawList(<<RawList(<<Picture, Picture>>),              \* too much
                    RawList(<<Picture, Picture>>)>>)}           \* metadata
AllObjects == Leaf \cup Lists
NoBytes == Message(NotJson, <<>>)

Entry(metadata, size) == [metadata |-> metadata, payload_size |-> size]
ListOf(count, entries) == [type |-> "list", count |-> count, items |-> entries]
Plain == [type |-> "bytes"]
RawOnes ==
  {NoBytes,
   Message(NotJson, <<1>>),
   Message([encoding |-> "utf-8"], <<1>>),                      \* no type
   Message([type |-> "image", mode |-> "L"], <<1>>),            \* no size
   Message([type |-> "tensor", version |-> "2"], <<1, 2>>),
   Message(ListOf(2, <<Entry(Plain, 1)>>), <<1>>),
   Message(ListOf(1, <<Entry(Plain, 1)>>), <<1, 2>>),           \* trailing
   Message(ListOf(2, <<Entry(Plain, 1), Entry(Plain, 2)>>), <<1, 2>>),
   Message(ListOf(1, <<[payload_size |-> 1]>>), <<1>>),
   Message(ListOf(2, <<Entry([type |-> "tensor", version |-> "2"], 1),
                       Entry(Plain, 1)>>), <<1, 2>>)}
TensorOnly == {<<"tensor", "custom", "2">>, <<"tensor", "broken", "">>,
               <<"/tensor", "custom", "">>}
OverrideText == {<<"text", "custom", "">>}
NoMessages == {}
AllMessages == {serialize(o) : o \in AllObjects} \cup RawOnes
LeafMessages == {serialize(o) : o \in Leaf}
(* Sizes are looked up, not computed again and again.                      *)
Sizes == [m \in AllMessages \cup {NoBytes} |-> DocumentSize(m.metadata)]
SizeOf(m) == Sizes[m]
=============================================================================

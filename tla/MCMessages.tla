----------------------------- MODULE MCMessages -----------------------------
(***************************************************************************)
(* Instances of MessageFlow for TLC: every method with a few messages.     *)
(***************************************************************************)
EXTENDS MessageFlow

CONSTANT Long   \* a number of characters that needs two bytes for its length

\* One byte more than decodeOp accepts in a field.
Huge == Run("b", FieldLimit + 1)

Number == {-1, 0, 127, 20000}

Bad     == Text(NotUtf8)
Name    == {<<>>, Text("a"), Bad}
NoAttrs == [x \in {} |-> <<>>]
Data    == {<<>>, Text("a"), Run("b", Long)}

OneAttr  == Text("k") :> Text("v")
TwoAttrs == Text("k") :> <<>> @@ Text("l") :> Text("v")
BadAttr  == Text("k") :> Bad

Entries == {<<>>, <<MakeLogEntry(<<>>, 0, 0)>>}
           \cup {<<MakeLogEntry(d, 1, n), MakeLogEntry(Text("a"), n, 2)>> :
                    d \in Data, n \in Number}

Vectors == {<<>>, <<0>>, [i \in 1..35 |-> i % 3]}
Features ==
    {MakeItemFeature(x, e, at, n) :
        x \in Name, e \in Vectors, at \in {NoAttrs, OneAttr, TwoAttrs, BadAttr},
        n \in Number}
    \cup {[MakeItemFeature(Text("a"), <<0>>, OneAttr, 1) EXCEPT !.unknown = Varint(9, 5)],
          MakeItemFeature(Text("a"), <<0>>, Text("k") :> Huge, 1)}

Written == {Serialize(ItemFeature, f, <<Text("l"), Text("k")>>) :
              f \in {MakeItemFeature(Text("a"), <<0, 1>>, OneAttr, 1),
                     MakeItemFeature(Text("a"), <<2>>, TwoAttrs, 0),
                     MakeItemFeature(<<>>, <<>>, BadAttr, 7)}}
\* All of a value, a part of its fields, or a part that ends inside a field.
Cuts(b) == {SubSeq(b, 1, i) : i \in 0..Len(b)}
           \cup {Append(SubSeq(b, 1, i), Torn) : i \in 0..Len(b)-1}
Values == UNION {Cuts(b) : b \in Written}
Large  == Serialize(ItemFeature, MakeItemFeature(Huge, <<0>>, NoAttrs, 1), <<>>)

RequestsOf(m) ==
    CASE m[2] = "AppendEntries" ->
            {MakeAppendEntriesArgs(t, 1, i, 2, e, c, 3) :
                t, i, c \in Number, e \in Entries}
      [] m[2] = "RequestVote" ->
            {MakeRequestVoteArgs(t, c, i, l) : t, c, i, l \in Number}
      [] m[2] = "PreRequestVote" ->
            {MakePreRequestVoteArgs(t, c, i, l) : t, c, i, l \in Number}
      [] m[2] = "InstallSnapshot" ->
            {MakeInstallSnapshotRequest(1, t, i, 2, d) : t, i \in Number, d \in Data}
      [] m[2] = "ReadIndex" -> {MakeReadIndexRequest(n) : n \in Number}
      [] m[2] = "Get" ->
            {MakeGetArgs(x, c, n) : x, c \in Name, n \in Number}
      [] m[2] = "PutAppend" ->
            {MakePutAppendArgs(x, v, o, Text("a"), n) :
                x \in Name, v \in Values \cup {Large},
                o \in {Text("Put"), Text("Append")}, n \in {0, 1}}
            \cup {MakePutAppendArgs(Huge, <<>>, Text("Put"), Text("a"), 1),
                  MakePutAppendArgs(Text("a"), <<>>, Text("Put"), Huge, 1)}
      [] m[2] = "PutFeature" ->
            {MakePutFeatureArgs(f, c, 1) : f \in Features, c \in {<<>>, Text("a")}}
      [] m[2] = "Search" ->
            {MakeSearchRequest(q, n, x) : q \in Vectors, n \in Number, x \in Name}

ResponsesOf(m) ==
    CASE m[2] = "AppendEntries" ->
            {MakeAppendEntriesReply(n, b, 1, 2, 3, -n) : n \in Number, b \in BOOLEAN}
      [] m[2] = "RequestVote" ->
            {MakeRequestVoteReply(n, b, 1) : n \in Number, b \in BOOLEAN}
      [] m[2] = "PreRequestVote" ->
            {MakePreRequestVoteReply(n, b) : n \in Number, b \in BOOLEAN}
      [] m[2] = "InstallSnapshot" -> {MakeInstallSnapshotResponse(n) : n \in Number}
      [] m[2] = "ReadIndex" ->
            {MakeReadIndexResponse(n, 5, b) : n \in Number, b \in BOOLEAN}
      [] m[2] = "Get" -> {MakeGetReply(e, d) : e \in {<<>>, Text("OK")}, d \in Data}
      [] m[2] = "PutAppend"  -> {MakePutAppendReply(Text("OK"))}
      [] m[2] = "PutFeature" -> {MakePutFeatureReply(Text("OK"))}
      [] m[2] = "Search" ->
            {MakeSearchResponse(<<>>, <<>>, 0)} \cup
            {MakeSearchResponse(<<Text("a"), x>>, v, n) :
                x \in Name, v \in Vectors, n \in Number}

Orders == {<<Text("k"), Text("l")>>, <<Text("l"), Text("k")>>}
JunkInts == {-1, 0, 7}
\* What the SkipList may hold: whole values and one that ends inside a field.
OldValues == Written \cup {<<>>, <<Torn>>}
\* The two halves of a value, put and appended, are read as the value.
Halves == {MakeItemFeature(Text("a"), <<0, 1>>, OneAttr, 1)}

=============================================================================

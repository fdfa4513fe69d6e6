---------------------------- MODULE HeaderTables ----------------------------
(***************************************************************************)
(* The compression of response headers on one http2 connection             *)
(* (hpack/encode.go, hpack/hpack.go and their use in server.go).           *)
(*                                                                         *)
(* The encoder of the server and the decoder of the client each keep a     *)
(* table of fields, and refer to it by position, so both have to do the    *)
(* same to it in the same order.  The client limits its size by SETTINGS,  *)
(* which the serve goroutine processes, whereas headers are encoded in the *)
(* goroutine of writeFrameAsync.  The client's decoder is this package's.  *)
(***************************************************************************)
EXTENDS Integers, Sequences, FiniteSetsExt

CONSTANTS
  Static,        \* staticTable: a sequence of names and values
  Fields,        \* the header fields given to WriteField (the server marks none sensitive)
  Length,        \* the length of each name and value
  TableSize,     \* initialHeaderTableSize
  Sizes,         \* the SETTINGS_HEADER_TABLE_SIZEs clients announce
  MaxFields,     \* bound: fields sent
  MaxSettings,   \* bound: SETTINGS the client sends
  WhileEncoding  \* whether SETTINGS are also processed while a header is encoded

ASSUME SizesAssumption ==
  /\ TableSize \in Nat /\ Sizes \subseteq Nat
  /\ MaxFields \in Nat /\ MaxSettings \in Nat /\ WhileEncoding \in BOOLEAN

ASSUME FieldsAssumption ==
  /\ Static \in Seq([name : STRING, value : STRING])
  /\ Fields \subseteq [name : STRING, value : STRING, sensitive : BOOLEAN]
  /\ \A f \in Fields : Length[f.name] \in Nat /\ Length[f.value] \in Nat

VARIABLES
  enc,      \* the server's Encoder
  writer,   \* the goroutine of writeFrameAsync
  serve,    \* the serve goroutine, in SetMaxDynamicTableSize or not
  wire,     \* what the server has written, on its way to the client
  dec,      \* the client's Decoder
  client,   \* its SETTINGS: sent, not acknowledged, and the size it allows
  written,  \* the fields that were given to WriteField
  decoded   \* the fields that were emitted by the Decoder

vars == <<enc, writer, serve, wire, dec, client, written, decoded>>

---------------------------------------------------------------------------
(* dynamicTable *)

Size(f) == Length[f.name] + Length[f.value]

TableUse(ents) == SumFunction([i \in DOMAIN ents |-> Size(ents[i])])

\* evict: the oldest go, as many as have to.
Evict(t) ==
  LET n == Len(t.ents)
      from == Min({k \in 1..n + 1 : TableUse(SubSeq(t.ents, k, n)) <= t.max})
  IN [t EXCEPT !.ents = SubSeq(@, from, n)]

SetMaxSize(t, v) == Evict([t EXCEPT !.max = v])

\* Mutation: there is always room for one more.
AddUnchecked(t, f) == [t EXCEPT !.ents = Append(@, f)]

Add(t, f) == Evict([t EXCEPT !.ents = Append(@, f)])

Indexes(t) == 1..Len(Static) + Len(t.ents)

\* Decoder.at: the static table comes first, and of the other the newest.
At(t, i) ==
  IF i <= Len(Static) THEN Static[i] ELSE t.ents[Len(t.ents) + 1 - (i - Len(Static))]

\* Mutation: a sensitive field may match one that is not.
SearchInsensitive(t, f) ==
  LET named == {i \in Indexes(t) : At(t, i).name = f.name}
      same  == {i \in named : At(t, i).value = f.value}
  IN [idx   |-> IF same # {} THEN Min(same) ELSE IF named # {} THEN Min(named) ELSE 0,
      match |-> same # {}]

\* searchTable and dynamicTable.search: the first that has name and value, or
\* the first that has the name.  A sensitive value matches none.
Search(t, f) ==
  LET named == {i \in Indexes(t) : At(t, i).name = f.name}
      same  == {i \in named : ~f.sensitive /\ At(t, i).value = f.value}
  IN [idx   |-> IF same # {} THEN Min(same) ELSE IF named # {} THEN Min(named) ELSE 0,
      match |-> same # {}]

---------------------------------------------------------------------------
(* What is written: representations of fields, updates of the table's size *)
(* and the acknowledgements of SETTINGS                                    *)

Indexed(i)    == [kind |-> "indexed", idx |-> i]
SizeUpdate(v) == [kind |-> "size", max |-> v]
Ack           == [kind |-> "ack"]

\* appendNewName and appendIndexedName
Literal(f, i, indexing) ==
  [kind |-> "literal", idx |-> i, name |-> IF i = 0 THEN f.name ELSE "",
   value |-> f.value,
   type  |-> IF f.sensitive THEN "never" ELSE IF indexing THEN "add" ELSE "without"]

Unset == TableSize + 1  \* uint32Max: no size is as large
Nothing == [name |-> "", value |-> "", sensitive |-> FALSE]

Init ==
  /\ enc     = [table |-> [ents |-> <<>>, max |-> TableSize],
                minSize |-> Unset, tableSizeUpdate |-> FALSE]
  /\ writer  = [pc |-> "idle", field |-> Nothing, idx |-> 0, match |-> FALSE]
  /\ serve   = [pc |-> "select", size |-> 0, needToSendSettingsAck |-> FALSE]
  /\ wire    = <<>>
  /\ dec     = [table |-> [ents |-> <<>>, max |-> TableSize], failed |-> FALSE]
  /\ client  = [unacked |-> <<>>, arriving |-> <<>>, allowed |-> TableSize, sent |-> 0]
  /\ written = <<>>
  /\ decoded = <<>>

---------------------------------------------------------------------------
(* The serve goroutine *)

\* SETTINGS of the client, the first part of SetMaxDynamicTableSize ...
ProcessSettings ==
  LET v == Min({Head(client.arriving), TableSize}) IN
  /\ serve.pc = "select" /\ client.arriving # <<>>
  /\ WhileEncoding \/ writer.pc \in {"idle", "other"}
  /\ client' = [client EXCEPT !.arriving = Tail(@)]
  /\ enc' = [enc EXCEPT !.minSize = Min({@, v}), !.tableSizeUpdate = TRUE]
  /\ serve' = [serve EXCEPT !.pc = "resize", !.size = v]
  /\ UNCHANGED <<writer, wire, dec, written, decoded>>

\* ... and the second.  There is one flag for all acknowledgements.
Resize ==
  /\ serve.pc = "resize"
  /\ enc' = [enc EXCEPT !.table = SetMaxSize(@, serve.size)]
  /\ serve' = [serve EXCEPT !.pc = "select", !.needToSendSettingsAck = TRUE]
  /\ UNCHANGED <<writer, wire, dec, client, written, decoded>>

MayStart == serve.pc = "select" /\ writer.pc = "idle"

\* scheduleFrameWrite: acknowledgements before the frames of streams
StartAck ==
  /\ MayStart /\ serve.needToSendSettingsAck
  /\ serve' = [serve EXCEPT !.needToSendSettingsAck = FALSE]
  /\ writer' = [writer EXCEPT !.pc = "other"]
  /\ wire' = Append(wire, Ack)
  /\ UNCHANGED <<enc, dec, client, written, decoded>>

\* ... of a header, or of anything else
StartFrame ==
  /\ MayStart /\ ~serve.needToSendSettingsAck
  /\ \E pc \in {"block", "other"} : writer' = [writer EXCEPT !.pc = pc]
  /\ UNCHANGED <<enc, serve, wire, dec, client, written, decoded>>

---------------------------------------------------------------------------
(* writeFrameAsync; WriteField in three steps *)

\* The fields of one header end, or the other frame is written.
EndFrame ==
  /\ writer.pc \in {"block", "other"}
  /\ writer' = [writer EXCEPT !.pc = "idle"]
  /\ UNCHANGED <<enc, serve, wire, dec, client, written, decoded>>

\* Mutation: only the size the table has in the end is told.
AnnounceSizeFinal(f) ==
  /\ writer.pc = "block" /\ Len(written) < MaxFields
  /\ enc' = [enc EXCEPT !.tableSizeUpdate = FALSE, !.minSize = Unset]
  /\ wire' = wire \o IF enc.tableSizeUpdate THEN <<SizeUpdate(enc.table.max)>> ELSE <<>>
  /\ writer' = [writer EXCEPT !.pc = "search", !.field = f]
  /\ written' = Append(written, f)
  /\ UNCHANGED <<serve, dec, client, decoded>>

\* Mutation: no size is told.
AnnounceSizeNever(f) ==
  /\ writer.pc = "block" /\ Len(written) < MaxFields
  /\ writer' = [writer EXCEPT !.pc = "search", !.field = f]
  /\ written' = Append(written, f)
  /\ UNCHANGED <<enc, serve, wire, dec, client, decoded>>

\* The size is told first, with the least it was in between.
AnnounceSize(f) ==
  /\ writer.pc = "block" /\ Len(written) < MaxFields
  /\ enc' = [enc EXCEPT !.tableSizeUpdate = FALSE,
                        !.minSize = IF enc.tableSizeUpdate THEN Unset ELSE @]
  /\ wire' = wire \o IF ~enc.tableSizeUpdate THEN <<>>
                     ELSE IF enc.minSize < enc.table.max
                     THEN <<SizeUpdate(enc.minSize), SizeUpdate(enc.table.max)>>
                     ELSE <<SizeUpdate(enc.table.max)>>
  /\ writer' = [writer EXCEPT !.pc = "search", !.field = f]
  /\ written' = Append(written, f)
  /\ UNCHANGED <<serve, dec, client, decoded>>

SearchTable ==
  LET found == Search(enc.table, writer.field) IN
  /\ writer.pc = "search"
  /\ writer' = [writer EXCEPT !.pc = "put", !.idx = found.idx, !.match = found.match]
  /\ UNCHANGED <<enc, serve, wire, dec, client, written, decoded>>

ShouldIndex(f) == ~f.sensitive /\ Size(f) <= enc.table.max

PutField ==
  LET f == writer.field IN
  /\ writer.pc = "put"
  /\ IF writer.match
     THEN wire' = Append(wire, Indexed(writer.idx)) /\ UNCHANGED enc
     ELSE /\ wire' = Append(wire, Literal(f, writer.idx, ShouldIndex(f)))
          /\ enc' = IF ShouldIndex(f) THEN [enc EXCEPT !.table = Add(@, f)] ELSE enc
  /\ writer' = [pc |-> "block", field |-> Nothing, idx |-> 0, match |-> FALSE]
  /\ UNCHANGED <<serve, dec, client, written, decoded>>

---------------------------------------------------------------------------
(* The client *)

\* It may send more SETTINGS before the last are acknowledged, and allows the
\* largest size that may be in force.
SendSettings(v) ==
  /\ client.sent < MaxSettings
  /\ client' = [unacked  |-> Append(client.unacked, v),
                arriving |-> Append(client.arriving, v),
                allowed  |-> Max({client.allowed, v}),
                sent     |-> client.sent + 1]
  /\ UNCHANGED <<enc, writer, serve, wire, dec, written, decoded>>

Received(kind) == wire # <<>> /\ Head(wire).kind = kind /\ wire' = Tail(wire)

ReceiveAck ==
  /\ Received("ack")
  /\ client' = [client EXCEPT !.unacked = Tail(@),
                  !.allowed = Max({client.unacked[i] : i \in DOMAIN client.unacked})]
  /\ UNCHANGED <<enc, writer, serve, dec, written, decoded>>

Decoding(kind) == ~dec.failed /\ Received(kind)

\* parseDynamicTableSizeUpdate
UpdateSize ==
  LET v == Head(wire).max IN
  /\ Decoding("size")
  /\ dec' = IF v > client.allowed THEN [dec EXCEPT !.failed = TRUE]
            ELSE [dec EXCEPT !.table = SetMaxSize(@, v)]
  /\ UNCHANGED <<enc, writer, serve, client, written, decoded>>

\* parseFieldIndexed
ParseIndexed ==
  LET i == Head(wire).idx IN
  /\ Decoding("indexed")
  /\ IF i \in Indexes(dec.table)
     THEN /\ decoded' = Append(decoded, [name |-> At(dec.table, i).name,
                                         value |-> At(dec.table, i).value,
                                         sensitive |-> FALSE])
          /\ UNCHANGED dec
     ELSE dec' = [dec EXCEPT !.failed = TRUE] /\ UNCHANGED decoded
  /\ UNCHANGED <<enc, writer, serve, client, written>>

\* parseFieldLiteral
ParseLiteral ==
  LET r == Head(wire)
      f == [name |-> IF r.idx = 0 THEN r.name ELSE At(dec.table, r.idx).name,
            value |-> r.value, sensitive |-> r.type = "never"]
  IN
  /\ Decoding("literal")
  /\ IF r.idx \in Indexes(dec.table) \cup {0}
     THEN /\ decoded' = Append(decoded, f)
          /\ dec' = IF r.type = "add" THEN [dec EXCEPT !.table = Add(@, f)] ELSE dec
     ELSE dec' = [dec EXCEPT !.failed = TRUE] /\ UNCHANGED decoded
  /\ UNCHANGED <<enc, writer, serve, client, written>>

Next ==
  \/ ProcessSettings \/ Resize
  \/ StartAck \/ StartFrame \/ EndFrame
  \/ \E f \in Fields : AnnounceSize(f)
  \/ SearchTable \/ PutField
  \/ \E v \in Sizes : SendSettings(v)
  \/ ReceiveAck \/ UpdateSize \/ ParseIndexed \/ ParseLiteral

Spec == Init /\ [][Next]_vars

---------------------------------------------------------------------------
(* Properties *)

\* Every variable keeps its type, and no table exceeds its size.
TypeOK ==
  /\ \A t \in {enc.table, dec.table} :
       t.max \in 0..TableSize /\ TableUse(t.ents) <= t.max
  /\ enc.minSize \in 0..Unset /\ enc.tableSizeUpdate \in BOOLEAN
  /\ writer.pc \in {"idle", "other", "block", "search", "put"}
  /\ writer.field \in Fields \cup {Nothing} /\ writer.idx \in Nat
  /\ serve.pc \in {"select", "resize"} /\ serve.needToSendSettingsAck \in BOOLEAN
  /\ client.allowed \in Nat
  /\ written \in Seq(Fields) /\ Len(decoded) <= Len(written)

\* The client decodes the fields that were written, in order, and knows the
\* sensitive ones; nothing it is sent is an error.
FieldsArrive ==
  ~dec.failed /\ decoded = SubSeq(written, 1, Len(decoded))

\* Once the client has decoded all that was written both tables are the same,
\* but for a resize that the next header is to tell.
TablesAgree ==
  wire = <<>> /\ writer.pc \in {"idle", "other", "block"} /\ ~enc.tableSizeUpdate
    => dec.table = enc.table /\ Len(decoded) = Len(written)

\* A field that is decoded after an acknowledgement finds a table that is no
\* larger than what the client still allows.
LimitInForce ==
  [][decoded' # decoded => dec.table.max <= client.allowed]_vars

\* hpackEncoder is "Owned by the writeFrameAsync goroutine" (server.go:363), so
\* what a client decodes does not depend on when its SETTINGS come.
EncoderOwned == FieldsArrive
=============================================================================

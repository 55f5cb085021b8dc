----------------------------- MODULE RecordCodec -----------------------------
(***************************************************************************)
(* What the generated codecs (internal/gen/playsbot) do with a schema: a   *)
(* struct that messages in DAG-CBOR and JSON are read into and that is     *)
(* written in either format; the keys no schema knows are carried along,   *)
(* raw, in the format they came in (extra.go). On top of it, how the       *)
(* indexer turns the records of both transports into one JSON form         *)
(* (internal/indexer/event.go, internal/lexbytes). Values are abstract:    *)
(* a field holds one or not; a union holds a member by its type id.        *)
(***************************************************************************)
EXTENDS Lexicon, Integers, Sequences, FiniteSets, SequencesExt

CONSTANTS
  Types,       \* the objects looked at
  MaxDecodes   \* BOUND: messages read into one struct

VARIABLES
  type,     \* the object's type
  held,     \* the struct: known fields with a value, members of its unions, extras
  decoded,  \* the messages read into it
  wire      \* the last thing written

vars == <<type, held, decoded, wire>>

Formats == {"CBOR", "JSON"}

\* A type id that no union of these lexicons lists.
Stranger == "org.example.newThing"

None == [format |-> "none"]
Error == [format |-> "error"]

Schema(t, format) == IF format = "CBOR" THEN CBORSchema[t] ELSE JSONSchema[t]

Fields(schema) == ToSet(schema.order)
Required(schema) == Fields(schema) \ schema.optional
Precedes(a, b) == Rank[a] < Rank[b]

\* Keys sorted by a rank.
InOrder(keys, rank) ==
  CHOOSE s \in [1..Cardinality(keys) -> keys] : \A i, j \in DOMAIN s : i < j => rank[s[i]] < rank[s[j]]

Zero == [has |-> {}, member |-> <<>>, extra |-> <<>>]

-----------------------------------------------------------------------------
(* Extras.                                                                 *)

\* One pass over the slice that keeps the extras of some formats in their order.
Keep(extras, formats) ==
  LET kept[i \in 0..Len(extras)] ==
        IF i = 0 THEN <<>>
        ELSE IF extras[i].format \in formats THEN Append(kept[i - 1], extras[i])
             ELSE kept[i - 1]
  IN  kept[Len(extras)]

\* Mutant: all extras are counted, whatever format they are in.
CountExtraAll(extras, format) == Len(extras)

CountExtra(extras, format) == Len(Keep(extras, {format}))

ClearExtra(extras, format) == Keep(extras, Formats \ {format})

\* Stands for the next known key where there is none, the empty string in the code.
End == "no key"

\* Where the cursor stops: at the first CBOR extra that does not sort before the
\* next known key.
StopBefore(extras, from, nextKey) ==
  LET stops == {i \in from..Len(extras) :
                  /\ extras[i].format = "CBOR"
                  /\ nextKey # End /\ ~Precedes(extras[i].key, nextKey)}
  IN IF stops = {} THEN Len(extras) + 1 ELSE CHOOSE i \in stops : \A j \in stops : i <= j

\* appendCBORExtrasBefore: the keys it writes.
ExtrasBefore(extras, from, nextKey) ==
  LET taken == Keep(SubSeq(extras, from, StopBefore(extras, from, nextKey) - 1), {"CBOR"})
  IN [i \in DOMAIN taken |-> taken[i].key]

-----------------------------------------------------------------------------
(* Writing.                                                                *)

Writes(schema, has, k) == k \in Required(schema) \/ k \in has

\* Nothing is written for a member kept raw in the other format; a union that was
\* never set cannot be written at all.
Holes(schema, v, format) ==
  {k \in DOMAIN schema.unions \cap v.has :
     v.member[k].id \notin schema.unions[k] /\ v.member[k].raw # format}

Unset(schema, v) == (DOMAIN schema.unions \cap Required(schema)) \ v.has

\* The cursor and the keys written before a known field, and after it.
NothingWritten == [at |-> 1, keys |-> <<>>]

WriteField(schema, v, done, k) ==
  [at   |-> StopBefore(v.extra, done.at, k),
   keys |-> done.keys \o ExtrasBefore(v.extra, done.at, k)
            \o (IF Writes(schema, v.has, k) THEN <<k>> ELSE <<>>)]

AfterFields(schema, v) ==
  LET after[i \in 0..Len(schema.order)] ==
        IF i = 0 THEN NothingWritten ELSE WriteField(schema, v, after[i - 1], schema.order[i])
  IN  after

\* The number of pairs in the map's header.
CountFields(schema, v) ==
  Cardinality(Required(schema)) + Cardinality(v.has \cap schema.optional) + CountExtra(v.extra, "CBOR")

MergedKeys(schema, v) ==
  LET known == AfterFields(schema, v)[Len(schema.order)]
  IN  known.keys \o ExtrasBefore(v.extra, known.at, End)

AppendCBOR(t, v) ==
  LET schema == CBORSchema[t]
  IN IF Unset(schema, v) # {} THEN Error
     ELSE [format |-> "CBOR", count |-> CountFields(schema, v), keys |-> MergedKeys(schema, v),
           holes  |-> Holes(schema, v, "CBOR")]

\* The known fields JSON writes.
KnownKeys(schema, has) == SelectSeq(schema.order, LAMBDA k : Writes(schema, has, k))

JSONExtras(extras) == Keep(extras, {"JSON"})

\* The extras whose values are bytes, as they came, and not strings.
BlobKeys(extras) == {extras[i].key : i \in {j \in DOMAIN extras : extras[j].blob}}

AppendJSON(t, v) ==
  LET schema == JSONSchema[t]
      extras == JSONExtras(v.extra)
      keys == KnownKeys(schema, v.has) \o [i \in DOMAIN extras |-> extras[i].key]
  IN IF Unset(schema, v) # {} THEN Error
     ELSE [format |-> "JSON", count |-> Len(keys), keys |-> keys,
           holes  |-> Holes(schema, v, "JSON"), blobs |-> BlobKeys(extras)]

-----------------------------------------------------------------------------
(* Reading. A message: [format, known, foreign, blobs, member, canonical,  *)
(* plain, empty]: the known fields it has, the keys no schema knows in its *)
(* order, those of them whose values are bytes, the type ids of its        *)
(* unions, whether a CBOR map is in canonical order, whether its bytes     *)
(* fields are base64 strings and whether one of them has no bytes in it.   *)

BytesFields == {"ciphertext", "nonce", "wrappedKey", "ephemeralPublicKey", "key"}

\* A bytes field that is a string is a decode error in both formats; a CBOR map out
\* of order or with a key twice is one, too.
Readable(m) ==
  /\ m.format = "CBOR" => m.canonical
  /\ m.plain => m.known \cap BytesFields = {}

\* A member with a type id the union lists is read into its type, another one kept
\* raw; a listed member read before stays the one that is written.
Member(schema, v, m, k) ==
  IF k \in DOMAIN v.member /\ v.member[k].id \in schema.unions[k]
     /\ m.member[k] \notin schema.unions[k]
  THEN v.member[k]
  ELSE [id |-> m.member[k], raw |-> m.format]

UnmarshalAt(t, v, m) ==
  LET schema == Schema(t, m.format)
      unions == DOMAIN schema.unions
  IN [has    |-> v.has \cup (m.known \cap Fields(schema)),
      member |-> [k \in unions \cap (v.has \cup m.known) |->
                    IF k \in m.known THEN Member(schema, v, m, k) ELSE v.member[k]],
      extra  |-> ClearExtra(v.extra, m.format)
                 \o [i \in DOMAIN m.foreign |-> [key |-> m.foreign[i], format |-> m.format,
                                                 blob |-> m.foreign[i] \in m.blobs]]]

-----------------------------------------------------------------------------
(* The two transports.                                                     *)

\* newKnownRecord.
KnownRecords == {"BotGame", "GameMove", "GameChallenge", "GameCommentary", "GameReveal",
                 "ActorProfile", "BotRating", "BotFlag"}

\* A Go map is marshalled in alphabetical order, so what was sent in another comes
\* out of a generic decode sorted.
Alphabetical(keys) == InOrder(ToSet(keys), AlphaRank)

\* NormalizeCommentaryRecordJSON: the bytes fields of a commentary record that are
\* strings become bytes objects, but the empty string stays a string; without one the
\* record is left as it is. Bytes under a foreign key are left as they are, too.
NormalizeCommentary(m) ==
  IF m.plain /\ m.known \cap BytesFields # {}
  THEN [m EXCEPT !.plain = m.empty, !.foreign = Alphabetical(m.foreign)]
  ELSE m

\* json.Marshal checks what MarshalJSON returned.
MarshalChecked(t, v) ==
  LET w == AppendJSON(t, v) IN IF w = Error \/ w.holes # {} THEN Error ELSE w

TypedJSON(t, m) == IF Readable(m) THEN MarshalChecked(t, UnmarshalAt(t, Zero, m)) ELSE Error

\* decodeRecordJSON.
DecodeRecordJSON(t, m) ==
  TypedJSON(t, IF t = "GameCommentary" THEN NormalizeCommentary(m) ELSE m)

\* Mutant: commentary is decoded like every other record.
DecodeRecordTyped(t, m) == TypedJSON(t, m)

\* decodeRecordCBOR: commentary goes through a generic decode, which makes JSON of
\* it with all bytes in it, those under foreign keys included, as strings.
DecodeRecordCBOR(t, m) ==
  IF t = "GameCommentary"
  THEN IF m.canonical
       THEN DecodeRecordJSON(t, [m EXCEPT !.format = "JSON", !.plain = TRUE, !.blobs = {},
                                          !.foreign = Alphabetical(m.foreign)])
       ELSE Error
  ELSE TypedJSON(t, m)

-----------------------------------------------------------------------------
(* The struct in use.                                                      *)

Init ==
  /\ type \in Types
  /\ held = Zero /\ decoded = <<>> /\ wire = None

Decode(m) ==
  /\ Len(decoded) < MaxDecodes /\ Readable(m)
  /\ held' = UnmarshalAt(type, held, m)
  /\ decoded' = Append(decoded, m)
  /\ wire' = None
  /\ UNCHANGED type

UnmarshalCBOR(m) == m.format = "CBOR" /\ Decode(m)

UnmarshalJSON(m) == m.format = "JSON" /\ Decode(m)

MarshalCBOR ==
  /\ wire = None
  /\ wire' = AppendCBOR(type, held)
  /\ UNCHANGED <<type, held, decoded>>

MarshalJSON ==
  /\ wire = None
  /\ wire' = AppendJSON(type, held)
  /\ UNCHANGED <<type, held, decoded>>

\* What is sent: with the required fields and none, one or all of the others, or
\* with one required field missing; with few foreign keys, whose values are bytes or
\* not; with a bytes field that is empty; with every union holding one of its members
\* or a stranger. The second message is a plain one.
KnownSets(schema) ==
  {Required(schema) \cup o : o \in {{}, schema.optional} \cup {{k} : k \in schema.optional}}
  \cup {Required(schema) \ {k} : k \in Required(schema)}

ForeignSeqs == {<<>>} \cup {<<k>> : k \in Unknown} \cup {InOrder(Unknown, Rank)}

Members(schema) ==
  {f \in [DOMAIN schema.unions -> UNION {schema.unions[k] : k \in DOMAIN schema.unions}
                                  \cup {Stranger}] :
     \A k \in DOMAIN schema.unions : f[k] \in schema.unions[k] \cup {Stranger}}

Messages(t, format) ==
  LET schema == Schema(t, format)
      second == decoded # <<>>
  IN {m \in [format: {format}, canonical: {TRUE}, plain: {FALSE}, foreign: ForeignSeqs,
              blobs: IF second THEN {{}} ELSE {{}, Unknown},
              empty: IF second THEN {FALSE} ELSE {FALSE, Fields(schema) \cap BytesFields # {}},
              known: IF second THEN {Required(schema)} ELSE KnownSets(schema),
              member: Members(schema)] :
        m.blobs # {} => m.foreign # <<>> /\ m.known = Required(schema)}

Next ==
  \/ \E m \in Messages(type, "CBOR") : UnmarshalCBOR(m)
  \/ \E m \in Messages(type, "JSON") : UnmarshalJSON(m)
  \/ MarshalCBOR
  \/ MarshalJSON

Spec == Init /\ [][Next]_vars

-----------------------------------------------------------------------------

TypeOK ==
  /\ type \in Types /\ Len(decoded) <= MaxDecodes
  /\ held.has \subseteq Fields(CBORSchema[type])
  /\ DOMAIN held.member = held.has \cap DOMAIN CBORSchema[type].unions
  /\ \A i \in DOMAIN held.extra : held.extra[i] \in [key: Unknown, format: Formats, blob: BOOLEAN]
  /\ wire.format \in Formats \cup {"none", "error"}

\* Every CBOR map written has its keys in the one canonical order and as many of
\* them as its header says, whatever was read into the struct before in whichever
\* format (extra.go:52 "This invariant is maintained by construction").
CBORIsCanonical ==
  wire.format = "CBOR" =>
    /\ \A i, j \in DOMAIN wire.keys : i < j => Precedes(wire.keys[i], wire.keys[j])
    /\ wire.count = Len(wire.keys)

\* A record whose content the lexicon knows, and commentary with a foreign key, too.
IsNative(t, m) ==
  /\ t \in KnownRecords
  /\ Len(m.foreign) <= IF t = "GameCommentary" THEN 1 ELSE 0
  /\ \A k \in DOMAIN m.member \cap m.known : m.member[k] # Stranger

\* Bytes without a byte in them, in commentary.
HasEmptyBytes(t, m) == t = "GameCommentary" /\ m.empty /\ m.known \cap BytesFields # {}

\* Such a record reaches the ingest rules as the same JSON from both transports,
\* whatever dialect its bytes are in over Jetstream, and is lost on neither, but in two
\* cases: the firehose turns bytes under a foreign key of commentary into a string, and
\* drops commentary with empty bytes.
TransportsAgree ==
  Len(decoded) = 1 /\ IsNative(type, decoded[1]) =>
    \A plain \in BOOLEAN :
      LET m    == decoded[1]
          cbor == DecodeRecordCBOR(type, [m EXCEPT !.format = "CBOR", !.plain = FALSE])
          json == DecodeRecordJSON(type, [m EXCEPT !.format = "JSON", !.plain = plain])
      IN type = "GameCommentary" \/ ~plain =>
           IF HasEmptyBytes(type, m) THEN cbor = Error
           ELSE /\ Unset(JSONSchema[type], held) = {} => json # Error
                /\ cbor = IF json = Error THEN Error ELSE [json EXCEPT !.blobs = {}]

\* What the code says of these records without an exception (event.go:52 "decoding each
\* transport's wire form into the typed record and re-marshaling yields byte-identical
\* canonical JSON").
TransportsAreIdentical ==
  Len(decoded) = 1 /\ IsNative(type, decoded[1]) =>
    LET m == decoded[1] IN
    DecodeRecordCBOR(type, [m EXCEPT !.format = "CBOR"])
      = DecodeRecordJSON(type, [m EXCEPT !.format = "JSON"])
=============================================================================

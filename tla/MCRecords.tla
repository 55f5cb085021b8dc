------------------------------ MODULE MCRecords ------------------------------
(***************************************************************************)
(* The way of a record of the service account: the key it is filed under   *)
(* (TidGenerator), the bytes it is written as (RecordCodec) and the calls  *)
(* that create it (ServiceWriter). The three share no state, so a          *)
(* behaviour is one of one of them; `part` says of which.                  *)
(***************************************************************************)
EXTENDS TidGenerator, Sequences

CONSTANTS
  MaxDecodes,                          \* of RecordCodec
  Calls, Null, MaxExpiries, MaxFaults  \* of ServiceWriter

VARIABLES
  part,
  type, held, decoded, wire,
  call, session, live, renewable, pdsIssued, mutex, repo, expiries, faults

codec == <<type, held, decoded, wire>>
writer == <<call, session, live, renewable, pdsIssued, mutex, repo, expiries, faults>>

Lex == INSTANCE Lexicon

Types == DOMAIN Lex!CBORSchema

C == INSTANCE RecordCodec
W == INSTANCE ServiceWriter WITH issued <- pdsIssued

\* What the tables of the generated codecs have in common: both formats know the same
\* fields, the same of them are optional and hold the same unions; DAG-CBOR writes them
\* in canonical order; no field is a key that no schema knows.
ASSUME LexiconAssumption ==
  /\ \A k, l \in DOMAIN C!Rank : C!Rank[k] \in Nat /\ (C!Rank[k] = C!Rank[l] => k = l)
  /\ C!Unknown \subseteq DOMAIN C!Rank /\ C!End \notin DOMAIN C!Rank
  /\ \A keys \in C!ForeignSeqs :
       keys \in Seq(C!Unknown) /\ \A i, j \in DOMAIN keys : i < j => C!Precedes(keys[i], keys[j])
  /\ \A t \in Types :
       LET schema == C!CBORSchema[t] IN
       /\ schema.order \in Seq(DOMAIN C!Rank \ C!Unknown)
       /\ \A i, j \in DOMAIN schema.order :
            i < j => C!Precedes(schema.order[i], schema.order[j])
       /\ schema.optional \subseteq C!Fields(schema) /\ DOMAIN schema.unions \subseteq C!Fields(schema)
       /\ C!Fields(C!JSONSchema[t]) = C!Fields(schema)
       /\ C!JSONSchema[t].optional = schema.optional /\ C!JSONSchema[t].unions = schema.unions
       /\ \A k \in DOMAIN schema.unions : C!Stranger \notin schema.unions[k]

Part(name) == part = name /\ UNCHANGED part

MCInit ==
  /\ part \in {"key", "bytes", "calls"}
  /\ Init /\ (part # "key" => wall = 0)
  /\ C!Init /\ (part # "bytes" => type = "GameMove")
  /\ W!Init

MCNext ==
  \/ Part("key")   /\ Next   /\ UNCHANGED <<codec, writer>>
  \/ Part("bytes") /\ C!Next /\ UNCHANGED <<vars, writer>>
  \/ Part("calls") /\ W!Next /\ UNCHANGED <<vars, codec>>

MCSpec == MCInit /\ [][MCNext]_<<part, vars, codec, writer>>

\* Every CBOR map RecordCodec writes is canonical (extra.go:52).
CBORIsCanonical == C!CBORIsCanonical

\* Both transports give the ingest rules the same JSON of a record, but for bytes under a
\* foreign key and empty bytes (event.go:52).
TransportsAgree == C!TransportsAgree

\* A retried write of ServiceWriter creates no second record (servicerepo.go:127).
CreatedOnce == W!CreatedOnce
=============================================================================

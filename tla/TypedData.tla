------------------------------ MODULE TypedData ------------------------------
(***************************************************************************)
(* Unsigned transactions, the typed data that a wallet shows and signs for *)
(* them, and the way back (chain/*_tx.go TypedData, chain/decoder.go,      *)
(* tdata/tdata.go).                                                        *)
(*                                                                         *)
(* A value in a message is a text: the pair of the form it is written in   *)
(* and what it says.  Hashes are injective, so that a hash is what it is   *)
(* the hash of.                                                            *)
(***************************************************************************)
EXTENDS Naturals, Sequences, FiniteSets

CONSTANTS
  Strings,       \* names of spaces and keys
  Bytes,         \* values
  Addresses,
  Uint64,        \* the numbers that are told apart
  BlockIDs

-----------------------------------------------------------------------------
(* Unsigned transactions                                                   *)

ClaimFields == <<"space", "price", "blockID">>
LifelineFields == <<"space", "units", "price", "blockID">>
SetFields == <<"space", "key", "value", "price", "blockID">>
DeleteFields == <<"space", "key", "price", "blockID">>
MoveFields == <<"space", "to", "price", "blockID">>
TransferFields == <<"to", "units", "price", "blockID">>

Types == {"claim", "lifeline", "set", "delete", "move", "transfer"}

\* The fields of each type, in the order in which TypedData lists them.
FieldsOf(typ) ==
  CASE typ = "claim" -> ClaimFields
    [] typ = "lifeline" -> LifelineFields
    [] typ = "set" -> SetFields
    [] typ = "delete" -> DeleteFields
    [] typ = "move" -> MoveFields
    [] typ = "transfer" -> TransferFields

FieldNames(typ) == {FieldsOf(typ)[i] : i \in DOMAIN FieldsOf(typ)}

\* The type a field is declared with, and what it may hold.
FieldType == [space |-> "string", key |-> "string", blockID |-> "string",
              value |-> "bytes", to |-> "address",
              units |-> "uint64", price |-> "uint64"]
DataOf == [space |-> Strings, key |-> Strings, blockID |-> BlockIDs,
           value |-> Bytes, to |-> Addresses,
           units |-> Uint64, price |-> Uint64]

\* tx is an unsigned transaction: a type, the magic of the chain and the fields.
IsUnsigned(tx) ==
  /\ tx = [typ |-> tx.typ, magic |-> tx.magic, data |-> tx.data]
  /\ tx.typ \in Types /\ tx.magic \in Uint64
  /\ tx.data = [k \in FieldNames(tx.typ) |-> tx.data[k]]
  /\ \A k \in FieldNames(tx.typ) : tx.data[k] \in DataOf[k]

-----------------------------------------------------------------------------
(* Typed data                                                              *)

\* How FormatUint, hexutil.Encode, Hex and String write a field.
FormOf == [string |-> "text", uint64 |-> "decimal", bytes |-> "hex",
           address |-> "checksummed"]

CreateTypedData(typ, magic, message) ==
  [types |-> FieldsOf(typ), primaryType |-> typ, name |-> "Spaces",
   magic |-> <<"decimal", magic>>, message |-> message]

TypedDataOf(tx) ==
  CreateTypedData(tx.typ, tx.magic,
    [k \in FieldNames(tx.typ) |-> <<FormOf[FieldType[k]], tx.data[k]>>])

\* What ParseUint, hexutil.Decode, HexToAddress and FromString accept.  A text
\* that is too short or too long for an address is cut or padded to one.
ReadForms == [string |-> {"text"}, uint64 |-> {"decimal"}, bytes |-> {"hex"},
              address |-> {"checksummed", "plain", "clipped"}]

\* What EncodePrimitiveValue accepts, for wallets that write a value otherwise.
SignForms == [string |-> {"text"}, uint64 |-> {"decimal", "0x", "number"},
              bytes |-> {"hex"}, address |-> {"checksummed", "plain"}]

Reads(td, k, forms) ==
  k \in DOMAIN td.message /\ td.message[k][1] \in forms[FieldType[k]]

Parsable(td) ==
  /\ td.primaryType \in Types
  /\ td.magic[1] \in ReadForms["uint64"] /\ td.magic[2] \in Uint64
  /\ \A k \in FieldNames(td.primaryType) :
       Reads(td, k, ReadForms) /\ td.message[k][2] \in DataOf[k]

\* The names, the order and the number of the fields are not looked at.
ParseTypedData(td) ==
  [typ |-> td.primaryType, magic |-> td.magic[2],
   data |-> [k \in FieldNames(td.primaryType) |-> td.message[k][2]]]

\* Something can be hashed if its message has the declared fields and no other.
Encodable(td) ==
  /\ Cardinality(DOMAIN td.message) <= Len(td.types)
  /\ td.magic[1] \in SignForms["uint64"]
  /\ \A i \in DOMAIN td.types : Reads(td, td.types[i], SignForms)

EncodeType(td) == <<td.primaryType, td.types>>

EncodeDataShort(td) ==
  [i \in 1..(Len(td.types) - 1) |-> td.message[td.types[i]][2]]

\* One word for each declared field, in this order.
EncodeData(td) == [i \in DOMAIN td.types |-> td.message[td.types[i]][2]]

DigestHash(td) == <<td.name, td.magic[2], EncodeType(td), EncodeData(td)>>

=============================================================================

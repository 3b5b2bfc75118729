---------------------------- MODULE JourneyProofs ----------------------------
(***************************************************************************)
(* What a wallet shows, what it signs and what the node executes agree,    *)
(* for any names, values, addresses and numbers, and however the typed     *)
(* data was written on the way; and what becomes of the signed transaction *)
(* in the mempool, in blocks and among the peers.                          *)
(***************************************************************************)
EXTENDS Journey, Facts

-----------------------------------------------------------------------------
(* Fields                                                                  *)

\* The fields of a type are a sequence, and each has a type that a form of
\* writing is known for and that is among the forms it can be read in.
LEMMA Fields ==
  ASSUME NEW typ \in Types
  PROVE  /\ \A k \in FieldNames(typ) : \E i \in DOMAIN FieldsOf(typ) : FieldsOf(typ)[i] = k
         /\ \A i \in DOMAIN FieldsOf(typ) : FieldsOf(typ)[i] \in FieldNames(typ)
         /\ \A k \in FieldNames(typ) : FormOf[FieldType[k]] \in ReadForms[FieldType[k]]
<1>1. /\ \A k \in FieldNames(typ) : \E i \in DOMAIN FieldsOf(typ) : FieldsOf(typ)[i] = k
      /\ \A i \in DOMAIN FieldsOf(typ) : FieldsOf(typ)[i] \in FieldNames(typ)
  BY DEF FieldNames
<1>2. \A k \in FieldNames(typ) :
        k \in {"space", "key", "blockID", "value", "to", "units", "price"}
  BY DEF FieldNames, FieldsOf, Types, ClaimFields, LifelineFields, SetFields,
         DeleteFields, MoveFields, TransferFields
<1>3. ASSUME NEW k \in {"space", "key", "blockID", "value", "to", "units", "price"}
      PROVE  FormOf[FieldType[k]] \in ReadForms[FieldType[k]]
  BY <1>3 DEF FieldType, FormOf, ReadForms
<1> QED
  BY <1>1, <1>2, <1>3

-----------------------------------------------------------------------------
(* The way there and back                                                  *)

\* ParseTypedData makes of a transaction's typed data that transaction again
\* (chain/decoder.go inverts the TypedData of every type).
THEOREM RoundTrip ==
  ASSUME NEW tx, IsUnsigned(tx)
  PROVE  Parsable(TypedDataOf(tx)) /\ ParseTypedData(TypedDataOf(tx)) = tx
<1> DEFINE td == TypedDataOf(tx)
<1>1. /\ tx = [typ |-> tx.typ, magic |-> tx.magic, data |-> tx.data]
      /\ tx.typ \in Types /\ tx.magic \in Uint64
      /\ tx.data = [k \in FieldNames(tx.typ) |-> tx.data[k]]
      /\ \A k \in FieldNames(tx.typ) : tx.data[k] \in DataOf[k]
  BY DEF IsUnsigned
<1>2. /\ td.primaryType = tx.typ /\ td.magic = <<"decimal", tx.magic>>
      /\ DOMAIN td.message = FieldNames(tx.typ)
      /\ \A k \in FieldNames(tx.typ) :
           td.message[k] = <<FormOf[FieldType[k]], tx.data[k]>>
  BY DEF TypedDataOf, CreateTypedData
<1>3. \A k \in FieldNames(tx.typ) : FormOf[FieldType[k]] \in ReadForms[FieldType[k]]
  BY <1>1, Fields
<1>4. "decimal" \in ReadForms["uint64"]
  BY DEF ReadForms
<1>5. \A k \in FieldNames(td.primaryType) :
        Reads(td, k, ReadForms) /\ td.message[k][2] \in DataOf[k]
  BY <1>1, <1>2, <1>3 DEF Reads
<1>6. Parsable(td)
  BY <1>1, <1>2, <1>4, <1>5 DEF Parsable
<1>7. [k \in FieldNames(td.primaryType) |-> td.message[k][2]] = tx.data
  <2>1. \A k \in FieldNames(tx.typ) : td.message[k][2] = tx.data[k]
    BY <1>2
  <2> QED
    BY <1>1, <1>2, <2>1
<1>8. ParseTypedData(td) = tx
  BY <1>1, <1>2, <1>7 DEF ParseTypedData
<1> QED
  BY <1>6, <1>8

\* If some typed data has the digest of the typed data of a transaction, that
\* transaction is what it says: nothing a wallet shows can be signed for another
\* transaction than the one DeriveSender takes the signature for.
THEOREM DigestBinds ==
  ASSUME NEW tx, tx.typ \in Types,
         tx = [typ |-> tx.typ, magic |-> tx.magic,
               data |-> [k \in FieldNames(tx.typ) |-> tx.data[k]]],
         NEW td, DigestHash(td) = DigestHash(TypedDataOf(tx))
  PROVE  ParseTypedData(td) = tx
<1> DEFINE of == TypedDataOf(tx)
           fields == FieldsOf(tx.typ)
<1>1. /\ of.types = fields /\ of.primaryType = tx.typ /\ of.magic[2] = tx.magic
      /\ \A k \in FieldNames(tx.typ) : of.message[k][2] = tx.data[k]
  BY DEF TypedDataOf, CreateTypedData
<1>2. /\ td.magic[2] = of.magic[2]
      /\ td.primaryType = of.primaryType /\ td.types = of.types
      /\ EncodeData(td) = EncodeData(of)
  BY DEF DigestHash, EncodeType
<1>3. \A i \in DOMAIN fields : td.message[fields[i]][2] = of.message[fields[i]][2]
  <2>1. TAKE i \in DOMAIN fields
  <2>2. EncodeData(td)[i] = td.message[fields[i]][2]
    BY <1>1, <1>2 DEF EncodeData
  <2>3. EncodeData(of)[i] = of.message[fields[i]][2]
    BY <1>1 DEF EncodeData
  <2> QED
    BY <1>2, <2>2, <2>3
<1>4. \A k \in FieldNames(tx.typ) : td.message[k][2] = tx.data[k]
  BY <1>1, <1>3, Fields
<1>5. [k \in FieldNames(td.primaryType) |-> td.message[k][2]]
        = [k \in FieldNames(tx.typ) |-> tx.data[k]]
  BY <1>1, <1>2, <1>4
<1> QED
  BY <1>1, <1>2, <1>5 DEF ParseTypedData

\* Two transactions with one digest are one transaction.
COROLLARY DigestInjective ==
  ASSUME NEW t, IsUnsigned(t), NEW u, IsUnsigned(u),
         DigestHash(TypedDataOf(t)) = DigestHash(TypedDataOf(u))
  PROVE  t = u
<1>1. ParseTypedData(TypedDataOf(t)) = t
  BY RoundTrip
<1>2. u.typ \in Types /\ u = [typ |-> u.typ, magic |-> u.magic,
                              data |-> [k \in FieldNames(u.typ) |-> u.data[k]]]
  BY DEF IsUnsigned
<1>3. ParseTypedData(TypedDataOf(t)) = u
  BY <1>2, DigestBinds
<1> QED
  BY <1>1, <1>3

-----------------------------------------------------------------------------
(* Requests                                                                *)

\* A request that the node takes for an account's is for the transaction that
\* the wallet of this account has shown.
LEMMA ShownIsSent ==
  ASSUME NEW r \in Requests, Sender(r.tx) \in Accounts
  PROVE  r.shown = r.tx.utx
<1>1. PICK a \in Accounts, td \in Offers, issued \in {td \in Offers : Parsable(td)} :
        r = [tx |-> [utx |-> ParseTypedData(issued),
                     sig |-> [signer |-> a, digest |-> DigestHash(td)]],
             shown |-> ParseTypedData(td)]
  BY DEF Requests
<1> DEFINE utx == ParseTypedData(issued)
<1>2. r.tx.utx = utx /\ r.tx.sig.digest = DigestHash(td) /\ r.shown = ParseTypedData(td)
  BY <1>1
<1>3. r.tx.sig.digest = DigestHash(TypedDataOf(utx))
  BY <1>2, JourneyAssumption DEF Sender
<1>4. /\ utx.typ \in Types
      /\ utx = [typ |-> utx.typ, magic |-> utx.magic,
                data |-> [k \in FieldNames(utx.typ) |-> utx.data[k]]]
  BY DEF ParseTypedData, Parsable
<1> QED
  BY <1>2, <1>3, <1>4, DigestBinds

\* All forms that a text may be written in are finitely many.
LEMMA FormsFinite ==
  \A k : FieldType[k] \in {"string", "uint64", "bytes", "address"} =>
           IsFiniteSet(ReadForms[FieldType[k]] \cup SignForms[FieldType[k]])
<1> DEFINE all == <<"text", "decimal", "hex", "checksummed", "plain", "clipped", "0x", "number">>
           forms == {all[i] : i \in 1..8}
<1>1. IsFiniteSet(forms)
  <2> HIDE DEF all
  <2>1. \A n \in Nat : IsFiniteSet(1..n)
    BY FS_Interval
  <2>2. PICK n \in Nat : n = 8
    OBVIOUS
  <2> QED
    BY <2>1, <2>2, FiniteImage
<1> SUFFICES ASSUME NEW typ \in {"string", "uint64", "bytes", "address"}
             PROVE  IsFiniteSet(ReadForms[typ] \cup SignForms[typ])
  OBVIOUS
<1>2. ReadForms[typ] \cup SignForms[typ] \subseteq forms
  <2>1. /\ all[1] = "text" /\ all[2] = "decimal" /\ all[3] = "hex" /\ all[4] = "checksummed"
        /\ all[5] = "plain" /\ all[6] = "clipped" /\ all[7] = "0x" /\ all[8] = "number"
    OBVIOUS
  <2>2. ReadForms[typ] \cup SignForms[typ] \subseteq
          {"text", "decimal", "hex", "checksummed", "plain", "clipped", "0x", "number"}
    BY DEF ReadForms, SignForms
  <2> HIDE DEF all
  <2> QED
    BY <2>1, <2>2
<1> HIDE DEF forms
<1> QED
  BY <1>1, <1>2, FS_Subset

\* A type has finitely many fields, each of a type with known forms.
LEMMA FieldsFinite ==
  ASSUME NEW typ \in Types
  PROVE  /\ IsFiniteSet(FieldNames(typ))
         /\ \A k \in FieldNames(typ) : FieldType[k] \in {"string", "uint64", "bytes", "address"}
<1>1. DOMAIN FieldsOf(typ) \in {1..3, 1..4, 1..5}
  BY DEF FieldsOf, Types, ClaimFields, LifelineFields, SetFields, DeleteFields, MoveFields,
         TransferFields
<1>2. IsFiniteSet(DOMAIN FieldsOf(typ))
  <2>1. PICK n \in Nat : DOMAIN FieldsOf(typ) = 1..n
    BY <1>1
  <2> QED
    BY <2>1, FS_Interval
<1>3. IsFiniteSet(FieldNames(typ))
  BY <1>2, FiniteImage DEF FieldNames
<1>4. FieldNames(typ) \subseteq {"space", "key", "blockID", "value", "to", "units", "price"}
  BY DEF FieldNames, FieldsOf, Types, ClaimFields, LifelineFields, SetFields,
         DeleteFields, MoveFields, TransferFields
<1>5. \A k \in {"space", "key", "blockID", "value", "to", "units", "price"} :
        FieldType[k] \in {"string", "uint64", "bytes", "address"}
  BY DEF FieldType
<1> QED
  BY <1>3, <1>4, <1>5

\* Typed data can be written in finitely many ways.
LEMMA RenderingsFinite ==
  ASSUME NEW tx, IsUnsigned(tx)
  PROVE  IsFiniteSet(Renderings(TypedDataOf(tx)))
<1> DEFINE td == TypedDataOf(tx)
           Forms(k) == ReadForms[FieldType[k]] \cup SignForms[FieldType[k]]
           Written(k, form) == [td EXCEPT !.message[k][1] = form]
           WithForms(k) == {Written(k, form) : form \in Forms(k)}
           rewritten == {WithForms(k) : k \in DOMAIN td.message}
           reordered == [td EXCEPT !.types = Reverse(@)]
           renamed == [td EXCEPT !.name = "spaces"]
           extended == [td EXCEPT !.message = [k \in DOMAIN @ \cup {"note"} |->
                                  IF k = "note" THEN <<"text", k>> ELSE @[k]]]
<1>1. tx.typ \in Types /\ DOMAIN td.message = FieldNames(tx.typ)
  BY DEF IsUnsigned, TypedDataOf, CreateTypedData
<1>2. IsFiniteSet(UNION rewritten)
  <2>1. ASSUME NEW k \in DOMAIN td.message
        PROVE  IsFiniteSet(WithForms(k))
    <3> DEFINE g == [form \in Forms(k) |-> Written(k, form)]
    <3>1. IsFiniteSet(Forms(k))
      BY <1>1, FieldsFinite, FormsFinite
    <3> HIDE DEF Written, Forms
    <3>2. IsFiniteSet({g[form] : form \in Forms(k)})
      BY <3>1, FiniteImage
    <3>3. WithForms(k) = {g[form] : form \in Forms(k)}
      OBVIOUS
    <3> QED
      BY <3>2, <3>3
  <2> DEFINE g == [k \in DOMAIN td.message |-> WithForms(k)]
             keys == DOMAIN td.message
  <2> HIDE DEF WithForms, td
  <2>2. IsFiniteSet(keys)
    BY <1>1, FieldsFinite
  <2>3. IsFiniteSet({g[k] : k \in keys})
    BY <2>2, FiniteImage
  <2>4. rewritten = {g[k] : k \in keys}
    OBVIOUS
  <2>5. IsFiniteSet(rewritten)
    BY <2>3, <2>4
  <2> QED
    BY <2>1, <2>5, FS_UNION
<1>3. Renderings(td) = ({td, reordered, renamed} \cup UNION rewritten) \cup {extended}
  <2> HIDE DEF td
  <2> QED
    BY DEF Renderings
<1> HIDE DEF td, reordered, renamed, rewritten, extended
<1>4. IsFiniteSet({td} \cup {reordered})
  BY FS_Singleton, FS_AddElement
<1>5. IsFiniteSet({td, reordered, renamed})
  <2>1. {td, reordered, renamed} = ({td} \cup {reordered}) \cup {renamed}
    OBVIOUS
  <2> QED
    BY <1>4, <2>1, FS_AddElement
<1>6. IsFiniteSet({td, reordered, renamed} \cup UNION rewritten)
  BY <1>5, <1>2, FS_Union
<1>7. IsFiniteSet(Renderings(td))
  BY <1>6, <1>3, FS_AddElement
<1> QED
  BY <1>7 DEF td

\* So users of finitely many accounts can make finitely many requests.
LEMMA RequestsFinite == IsFiniteSet(Requests)
<1>1. IsFiniteSet(Offers)
  <2> DEFINE g == [tx \in Inputs |-> Renderings(TypedDataOf(tx))]
             all == {Renderings(TypedDataOf(tx)) : tx \in Inputs}
  <2>1. IsFiniteSet({g[tx] : tx \in Inputs})
    BY JourneyAssumption, FiniteImage
  <2>2. all = {g[tx] : tx \in Inputs}
    OBVIOUS
  <2>3. \A T \in all : IsFiniteSet(T)
    BY JourneyAssumption, RenderingsFinite
  <2>4. IsFiniteSet(all)
    BY <2>1, <2>2
  <2> HIDE DEF all
  <2>5. IsFiniteSet(UNION all)
    BY <2>3, <2>4, FS_UNION
  <2> QED
    BY <2>5 DEF Offers, all
<1> DEFINE triples == (Accounts \X Offers) \X Offers
           Made(p) == [tx |-> [utx |-> ParseTypedData(p[2]),
                               sig |-> [signer |-> p[1][1], digest |-> DigestHash(p[1][2])]],
                       shown |-> ParseTypedData(p[1][2])]
           g == [p \in triples |-> Made(p)]
<1>2. IsFiniteSet(triples)
  BY <1>1, JourneyAssumption, FS_Product
<1> HIDE DEF triples
<1>3. IsFiniteSet({g[p] : p \in triples})
  BY <1>2, FiniteImage
<1> HIDE DEF g
<1>4. Requests \subseteq {g[p] : p \in triples}
  <2> SUFFICES ASSUME NEW a \in Accounts, NEW td \in Offers, NEW issued \in Offers
               PROVE  \E p \in triples :
                        g[p] = [tx |-> [utx |-> ParseTypedData(issued),
                                        sig |-> [signer |-> a, digest |-> DigestHash(td)]],
                                shown |-> ParseTypedData(td)]
    BY DEF Requests
  <2>1. <<<<a, td>>, issued>> \in triples
    BY DEF triples
  <2> QED
    BY <2>1 DEF g
<1> QED
  BY <1>3, <1>4, FS_Subset

\* SetToSeq lists the elements of a finite set and nothing else.
LEMMA Listed ==
  ASSUME NEW S, IsFiniteSet(S)
  PROVE  /\ SetToSeq(S) \in Seq(S)
         /\ Len(SetToSeq(S)) = Cardinality(S) /\ Cardinality(S) \in Nat
         /\ \A x \in S : \E i \in DOMAIN SetToSeq(S) : SetToSeq(S)[i] = x
<1> DEFINE list == SetToSeq(S)
           n == Cardinality(S)
<1>1. n \in Nat /\ ExistsBijection(1..n, S)
  BY FS_CardinalityType
<1>2. \E f \in [1..n -> S] : IsInjective(f)
  BY <1>1 DEF ExistsBijection, Bijection, Injection
<1>3. list \in [1..n -> S] /\ IsInjective(list)
  BY <1>2 DEF SetToSeq
<1>4. list \in Injection(1..n, S)
  BY <1>3 DEF Injection
<1> HIDE DEF list
<1>5. IsFiniteSet(1..n) /\ Cardinality(1..n) = n
  BY <1>1, FS_Interval
<1>6. list \in Surjection(1..n, S)
  BY <1>4, <1>5, FS_Injection
<1>7. \A x \in S : \E i \in 1..n : list[i] = x
  BY <1>6 DEF Surjection
<1> QED
  BY <1>1, <1>3, <1>7 DEF list

\* A transaction is one of finitely many, somebody's request, and its sender an
\* account.
LEMMA Known ==
  /\ IsFiniteSet(Ids)
  /\ \A tx \in Ids : /\ SenderOf[tx] \in Accounts
                     /\ \E r \in Requests : r.tx = SentTxs[tx] /\ Sender(r.tx) \in Accounts
<1> DEFINE valid == {r \in Requests : Sender(r.tx) \in Accounts}
           txs == {r.tx : r \in valid}
<1>1. IsFiniteSet(txs)
  <2>1. IsFiniteSet(valid)
    BY RequestsFinite, FS_Subset
  <2> DEFINE f == [r \in valid |-> r.tx]
  <2>2. f \in Surjection(valid, txs)
    BY DEF Surjection
  <2> QED
    BY <2>1, <2>2, FS_Surjection
<1>2. SentTxs = SetToSeq(txs)
  BY DEF SentTxs
<1>3. SentTxs \in Seq(txs) /\ Len(SentTxs) \in Nat
  <2> HIDE DEF txs
  <2> QED
    BY <1>1, <1>2, Listed
<1>4. IsFiniteSet(Ids)
  <2>1. Ids = 1..Len(SentTxs)
    BY <1>3 DEF Ids
  <2> QED
    BY <1>3, <2>1, FS_Interval
<1>5. ASSUME NEW tx \in Ids
      PROVE  /\ SenderOf[tx] \in Accounts
             /\ \E r \in Requests : r.tx = SentTxs[tx] /\ Sender(r.tx) \in Accounts
  <2>1. SentTxs[tx] \in txs
    <3> HIDE DEF txs
    <3> QED
      BY <1>3 DEF Ids
  <2> QED
    BY <2>1 DEF SenderOf
<1> QED
  BY <1>4, <1>5

\* In every state in which the mempool holds only requests that users have made,
\* as TypeOK says, AsShown holds.
LEMMA AsShownFromTypeOK ==
  ASSUME TypeOK
  PROVE  AsShown
<1> SUFFICES ASSUME NEW o \in pool, NEW r \in Requests, r.tx = SentTxs[o[1]]
             PROVE  r.shown = r.tx.utx
  BY DEF AsShown
<1>1. o[1] \in Ids
  BY DEF TypeOK
<1> QED
  BY <1>1, Known, ShownIsSent

-----------------------------------------------------------------------------
(* Submit                                                                  *)

\* What SubmitConservative asks of a transaction, but for the blocks.
Admissible(tx) ==
  /\ Funds[SenderOf[tx]] > 0
  /\ CASE TypeOf[tx] = "claim" -> space # "live"
       [] TypeOf[tx] = "transfer" -> TRUE
       [] OTHER -> space = "live"

Views == [expired : BOOLEAN, spent : [Accounts -> Nat]]

\* No view lets a transaction pass that would not pass alone.
LEMMA PassAlone ==
  ASSUME NEW tx \in Ids, NEW view \in Views, CanPay(tx, view), Executes(tx, view)
  PROVE  Admissible(tx)
<1>1. SenderOf[tx] \in Accounts
  BY Known
<1>2. Funds[SenderOf[tx]] \in Nat /\ view.spent[SenderOf[tx]] \in Nat
  BY <1>1, JourneyAssumption DEF Views
<1>3. Funds[SenderOf[tx]] > 0
  BY <1>2 DEF CanPay
<1> QED
  BY <1>3 DEF Executes, VerifySpace, Visible, Admissible

\* A message is a list of signed transactions, linked or not.
LEMMA MessagesAreLists ==
  ASSUME NEW msg \in Messages
  PROVE  msg \in Seq(signed \X BOOLEAN)
<1> DEFINE items == signed \X BOOLEAN
<1>1. \A i, j \in items : <<i>> \in Seq(items) /\ <<i, j>> \in Seq(items)
  <2> HIDE DEF items
  <2> QED
    OBVIOUS
<1>2. Messages = {<<i>> : i \in items} \cup {<<p[1], p[2]>> : p \in items \X items}
  BY DEF Messages
<1> HIDE DEF items
<1>3. msg \in Seq(items)
  BY <1>1, <1>2
<1> QED
  BY <1>3 DEF items

\* The batch adds to what may pass only transactions that would pass alone, and
\* what it leaves in the overlay is a view.
LEMMA PassedIsAdmissible ==
  ASSUME signed \subseteq Ids, NEW recent, NEW items \in Seq(signed \X BOOLEAN)
  PROVE  Passed(recent, items) \subseteq {tx \in signed : tx \notin recent /\ Admissible(tx)}
<1> DEFINE good == {tx \in signed : tx \notin recent /\ Admissible(tx)}
           S == [view : Views, ok : SUBSET good]
           N == Len(items)
           base == [view |-> FreshView, ok |-> {}]
           step == [n \in 1..N |-> [acc \in S |-> SubmitOne(recent, acc, items[n])]]
<1>1. base \in S
  BY DEF FreshView, Views
<1>2. ASSUME NEW acc \in S, NEW item \in signed \X BOOLEAN
      PROVE  SubmitOne(recent, acc, item) \in S
  <2> DEFINE tx == item[1]
  <2>1. acc.view \in Views /\ acc.ok \in SUBSET good /\ tx \in Ids /\ SenderOf[tx] \in Accounts
    BY Known
  <2>2. CASE item[2] \/ tx \in recent \/ ~CanPay(tx, acc.view)
    <3>1. item[2] \in BOOLEAN
      OBVIOUS
    <3>2. SubmitOne(recent, acc, item) = acc
      BY ONLY <2>2, <3>1 DEF SubmitOne
    <3> QED
      BY <3>2
  <2>3. CASE ~(item[2] \/ tx \in recent \/ ~CanPay(tx, acc.view)) /\ Executes(tx, acc.view)
    <3>1. tx \in good
      BY <2>1, <2>3, PassAlone
    <3>2. SubmitOne(recent, acc, item) = [view |-> AbortedView, ok |-> acc.ok \cup {tx}]
      BY <2>3 DEF SubmitOne
    <3>3. AbortedView \in Views
      BY DEF AbortedView, Views
    <3> HIDE DEF good
    <3> QED
      BY <2>1, <3>1, <3>2, <3>3
  <2>4. CASE ~(item[2] \/ tx \in recent \/ ~CanPay(tx, acc.view)) /\ ~Executes(tx, acc.view)
    <3>1. SubmitOne(recent, acc, item) = [acc EXCEPT !.view.spent[SenderOf[tx]] = @ + 1]
      BY <2>4 DEF SubmitOne
    <3> DEFINE spent == [acc.view.spent EXCEPT ![SenderOf[tx]] = @ + 1]
    <3>2. [acc EXCEPT !.view.spent[SenderOf[tx]] = @ + 1]
            = [view |-> [expired |-> acc.view.expired, spent |-> spent], ok |-> acc.ok]
      <4>1. acc = [view |-> acc.view, ok |-> acc.ok]
        OBVIOUS
      <4>2. acc.view = [expired |-> acc.view.expired, spent |-> acc.view.spent]
        BY <2>1 DEF Views
      <4>3. [acc EXCEPT !.view.spent[SenderOf[tx]] = @ + 1]
              = [acc EXCEPT !.view = [acc.view EXCEPT !.spent = spent]]
        OBVIOUS
      <4> HIDE DEF spent
      <4>4. [acc.view EXCEPT !.spent = spent] = [expired |-> acc.view.expired, spent |-> spent]
        BY <4>2
      <4> QED
        BY <4>1, <4>3, <4>4
    <3>3. spent \in [Accounts -> Nat]
      BY <2>1 DEF Views
    <3>4. acc.view.expired \in BOOLEAN
      BY <2>1 DEF Views
    <3>5. [expired |-> acc.view.expired, spent |-> spent] \in Views
      BY <3>3, <3>4 DEF Views
    <3> HIDE DEF good, spent
    <3>6. [view |-> [expired |-> acc.view.expired, spent |-> spent], ok |-> acc.ok] \in S
      BY <2>1, <3>5
    <3> QED
      BY <3>1, <3>2, <3>6
  <2> QED
    BY <2>2, <2>3, <2>4
<1>3. step \in [1..N -> [S -> S]]
  <2>1. \A n \in 1..N : items[n] \in signed \X BOOLEAN
    OBVIOUS
  <2> HIDE DEF S
  <2> QED
    BY <1>2, <2>1
<1>4. N \in Nat
  OBVIOUS
<1> DEFINE Runs(f) ==
      f = [n \in 0..N |-> IF n = 0 THEN base ELSE SubmitOne(recent, f[n - 1], items[n])]
<1> HIDE DEF S, base
<1>5. \E f : Runs(f)
  <2> HIDE DEF step
  <2>1. PICK f \in [0..N -> S] : FollowsUpTo(N, f, base, step)
    BY <1>1, <1>3, <1>4, RecursionUpTo
  <2>2. f = [n \in 0..N |-> IF n = 0 THEN base ELSE step[n][f[n - 1]]]
    BY <2>1 DEF FollowsUpTo
  <2>3. ASSUME NEW n \in 1..N
        PROVE  step[n][f[n - 1]] = SubmitOne(recent, f[n - 1], items[n])
    <3>1. f[n - 1] \in S
      BY <1>4
    <3> QED
      BY <3>1 DEF step
  <2>4. \A n \in 0..N : (IF n = 0 THEN base ELSE step[n][f[n - 1]])
                          = IF n = 0 THEN base ELSE SubmitOne(recent, f[n - 1], items[n])
    BY <1>4, <2>3
  <2>5. f = [n \in 0..N |-> IF n = 0 THEN base ELSE SubmitOne(recent, f[n - 1], items[n])]
    BY <2>2, <2>4, Zenon
  <2> QED
    BY <2>5
<1> DEFINE run == PassedFirst(recent, items)
<1>6. Runs(run)
  <2>1. run = CHOOSE f : Runs(f)
    BY DEF PassedFirst, base
  <2> HIDE DEF Runs, run
  <2> QED
    BY <1>5, <2>1
<1> HIDE DEF run
<1>7. \A n \in 0..N : run[n] \in S
  <2> DEFINE T == {n \in 0..N : run[n] \in S}
  <2>1. 0 \in T
    BY <1>1, <1>6
  <2>2. \A n \in 0..(N - 1) : n \in T => n + 1 \in T
    BY <1>2, <1>6
  <2>3. 0..N \subseteq T
    <3> HIDE DEF T
    <3> QED
      BY <1>4, <2>1, <2>2, InductionUpTo
  <2> QED
    BY <2>3
<1>8. run[N].ok \subseteq good
  BY <1>4, <1>7 DEF S
<1> QED
  BY <1>8 DEF Passed, run

-----------------------------------------------------------------------------
(* The invariant                                                           *)

Objects == Ids \X Nat
ItemType == Ids \X BOOLEAN
BlockType ==
  [status : {"new", "processing", "accepted", "rejected"}, objects : SUBSET Objects,
   bytes : Seq(ItemType), txs : Seq(ItemType), stored : Seq(ItemType), values : SUBSET Ids]

\* What the sequences and sets are made of.
Shape ==
  /\ signed \subseteq Ids /\ gossiped \subseteq Ids /\ sent \cup lost \subseteq ItemType
  /\ appSender \in BOOLEAN
  /\ space \in {"absent", "live", "due", "overdue"}
  /\ admitted \subseteq Objects /\ IsFiniteSet(admitted)
  /\ newTxs \in Seq(Objects) /\ selected \in Seq(Objects)
  /\ blocks \in Seq(BlockType)

\* All objects are among those admitted, of which there are not too many.
Held ==
  /\ \A o \in admitted : o[1] \in signed /\ o[2] < MaxAdmissions
  /\ pool \cup linked \cup Range(newTxs) \cup Range(selected) \subseteq admitted

\* A transaction is in the mempool once.
Once == \A o \in pool : \A p \in pool \ {o} : o[1] # p[1]

\* The objects of one id are numbered, so that the number of the next is free.
Counted ==
  \A o \in admitted : o[2] < Cardinality({p \in admitted : p[1] = o[1]})

\* What a block has taken out of the mempool stays out of it, it came with
\* signed transactions, and what is written of it is they with values linked.
BlockKept(b) ==
  /\ b.objects \subseteq admitted /\ b.objects \cap pool = {}
  /\ \A i \in DOMAIN b.bytes : b.bytes[i][1] \in signed /\ b.bytes[i][2] = FALSE
  /\ b.txs = b.bytes
  /\ b.status # "new" =>
       /\ b.stored = LinkedTxs(b.bytes)
       /\ b.values = {tx \in {b.bytes[i][1] : i \in DOMAIN b.bytes} : IsSet(tx)}

BlocksKept == \A i \in DOMAIN blocks : BlockKept(blocks[i])

Inv ==
  Shape /\ Held /\ Once /\ Counted /\ BlocksKept /\ pool \cap linked = {} /\ Offered

\* What TypeOK and Genuine say is part of it.
LEMMA InvImplies ==
  ASSUME Inv
  PROVE  TypeOK /\ Genuine
<1>1. TypeOK
  <2>1. \A o \in admitted : o[1] \in signed /\ o[2] \in 0..(MaxAdmissions - 1)
    BY JourneyAssumption DEF Inv, Shape, Held, Objects
  <2>2. ASSUME NEW b \in DOMAIN blocks
        PROVE  /\ blocks[b].status \in {"new", "processing", "accepted", "rejected"}
               /\ Range(blocks[b].bytes) \subseteq Ids \X BOOLEAN
    <3>1. blocks[b] \in BlockType
      BY DEF Inv, Shape
    <3>2. blocks[b].bytes \in Seq(ItemType)
      BY <3>1 DEF BlockType
    <3> QED
      BY <3>1, <3>2 DEF BlockType, ItemType, Range
  <2> QED
    BY <2>1, <2>2 DEF TypeOK, Inv, Shape, Held, Once, ItemType
<1>2. ASSUME NEW b \in DOMAIN blocks
      PROVE  LET signedItems == [i \in DOMAIN blocks[b].bytes |-> <<blocks[b].bytes[i][1], FALSE>>]
             IN  /\ blocks[b].txs = signedItems
                 /\ blocks[b].status = "accepted" => RestoredTxs(blocks[b].stored) = signedItems
  <2> DEFINE blk == blocks[b]
             signedItems == [i \in DOMAIN blk.bytes |-> <<blk.bytes[i][1], FALSE>>]
  <2>1. blk \in BlockType /\ BlockKept(blk)
    BY DEF Inv, Shape, BlocksKept
  <2>2. blk.bytes \in Seq(ItemType)
    BY <2>1 DEF BlockType
  <2>3. \A i \in DOMAIN blk.bytes : blk.bytes[i] = <<blk.bytes[i][1], FALSE>>
    <3> TAKE i \in DOMAIN blk.bytes
    <3>1. blk.bytes[i] \in Ids \X BOOLEAN
      BY <2>2 DEF ItemType
    <3>2. blk.bytes[i] = <<blk.bytes[i][1], blk.bytes[i][2]>>
      BY <3>1
    <3> QED
      BY <2>1, <3>2 DEF BlockKept
  <2>4. blk.bytes = signedItems
    <3> DEFINE bytes == blk.bytes
    <3>1. bytes = [i \in 1..Len(bytes) |-> bytes[i]] /\ DOMAIN bytes = 1..Len(bytes)
      BY <2>2
    <3> HIDE DEF blk
    <3> QED
      BY <2>3, <3>1
  <2>5. ASSUME blk.status = "accepted"
        PROVE  RestoredTxs(blk.stored) = signedItems
    <3>1. blk.stored = [i \in DOMAIN blk.bytes |-> <<blk.bytes[i][1], IsSet(blk.bytes[i][1])>>]
      BY <2>1, <2>5 DEF BlockKept, LinkedTxs
    <3>2. blk.values \subseteq StoredValues
      BY <2>5 DEF StoredValues, InState
    <3>3. \A i \in DOMAIN blk.bytes : IsSet(blk.bytes[i][1]) => blk.bytes[i][1] \in StoredValues
      BY <2>1, <2>5, <3>2 DEF BlockKept
    <3>4. \A i \in DOMAIN blk.bytes :
             (IsSet(blk.bytes[i][1]) /\ blk.bytes[i][1] \notin StoredValues) = FALSE
      BY <3>3
    <3>5. RestoredTxs(blk.stored) =
            [i \in DOMAIN blk.bytes |->
               <<blk.bytes[i][1], IsSet(blk.bytes[i][1]) /\ blk.bytes[i][1] \notin StoredValues>>]
      <4> HIDE DEF blk
      <4> QED
        BY <3>1 DEF RestoredTxs
    <3> HIDE DEF blk
    <3> QED
      BY <3>4, <3>5
  <2> QED
    BY <2>1, <2>4, <2>5 DEF BlockKept
<1> QED
  BY <1>1, <1>2 DEF Genuine, Inv

\* The invariant holds at the start.
LEMMA InitInv ==
  ASSUME Init
  PROVE  Inv
<1>1. IsFiniteSet(admitted) /\ Range(newTxs) = {} /\ Range(selected) = {}
  BY FS_EmptySet DEF Init, Range
<1> QED
  BY <1>1 DEF Init, Inv, Shape, Held, Once, Counted, BlocksKept, Offered

-----------------------------------------------------------------------------
(* What Mempool.Add preserves                                              *)

LEMMA RangeOfAppended ==
  ASSUME NEW S, NEW s \in Seq(S), NEW t \in Seq(S)
  PROVE  s \o t \in Seq(S) /\ Range(s \o t) = Range(s) \cup Range(t)
<1>1. /\ Len(s) \in Nat /\ Len(t) \in Nat
      /\ DOMAIN s = 1..Len(s) /\ DOMAIN t = 1..Len(t)
      /\ s \o t \in Seq(S) /\ DOMAIN (s \o t) = 1..(Len(s) + Len(t))
      /\ \A i \in 1..(Len(s) + Len(t)) :
           (s \o t)[i] = IF i <= Len(s) THEN s[i] ELSE t[i - Len(s)]
  OBVIOUS
<1> DEFINE st == s \o t
<1> HIDE DEF st
<1>2. \A i \in DOMAIN s : i \in DOMAIN st /\ st[i] = s[i]
  BY <1>1 DEF st
<1>3. \A i \in DOMAIN t : i + Len(s) \in DOMAIN st /\ st[i + Len(s)] = t[i]
  BY <1>1 DEF st
<1>4. \A i \in DOMAIN st : \/ i \in DOMAIN s /\ st[i] = s[i]
                           \/ i - Len(s) \in DOMAIN t /\ st[i] = t[i - Len(s)]
  BY <1>1 DEF st
<1>5. Range(st) = Range(s) \cup Range(t)
  BY <1>2, <1>3, <1>4 DEF Range
<1> QED
  BY <1>1, <1>5 DEF st

\* A fresh object is not one of those admitted, and within the bound.
LEMMA FreshIsNew ==
  ASSUME Shape, Counted, NEW tx \in Ids
  PROVE  /\ Fresh(tx) \notin admitted /\ Fresh(tx) \in Objects
         /\ Cardinality(admitted) \in Nat /\ Fresh(tx)[2] <= Cardinality(admitted)
<1> DEFINE same == {o \in admitted : o[1] = tx}
<1>1. IsFiniteSet(same) /\ Cardinality(same) \in Nat /\ Cardinality(admitted) \in Nat
      /\ Cardinality(same) <= Cardinality(admitted)
  BY FS_Subset, FS_CardinalityType DEF Shape
<1>2. Fresh(tx) = <<tx, Cardinality(same)>>
  BY DEF Fresh
<1>3. Fresh(tx) \notin admitted
  <2> SUFFICES ASSUME Fresh(tx) \in admitted PROVE FALSE
    OBVIOUS
  <2>1. Fresh(tx)[1] = tx /\ Fresh(tx)[2] = Cardinality(same)
    BY <1>2
  <2>2. Fresh(tx)[2] < Cardinality(same)
    BY <2>1 DEF Counted
  <2> QED
    BY <1>1, <2>1, <2>2
<1> HIDE DEF same
<1> QED
  BY <1>1, <1>2, <1>3 DEF Objects

\* AddAll adds to the mempool, to newTxs and to what was admitted the same
\* objects, none of them admitted before.
LEMMA Added ==
  ASSUME Shape, Held, Once, Counted, NEW txs, txs \subseteq signed, AddAll(txs)
  PROVE  \E objects \in SUBSET Objects :
           /\ pool' = pool \cup objects /\ admitted' = admitted \cup objects
           /\ newTxs' \in Seq(Objects) /\ Range(newTxs') = Range(newTxs) \cup objects
           /\ objects \cap admitted = {} /\ IsFiniteSet(admitted')
           /\ \A o \in objects : o[1] \in txs /\ o[2] < MaxAdmissions
           /\ Once' /\ Counted'
<1> DEFINE new == New(txs)
           objects == {Fresh(tx) : tx \in new}
<1>1. new \subseteq txs /\ new \subseteq Ids /\ txs \subseteq Ids /\ IsFiniteSet(new)
  <2>1. new \subseteq txs /\ txs \subseteq Ids
    BY DEF New, Shape
  <2> QED
    BY <2>1, Known, FS_Subset
<1>2. /\ Cardinality(admitted) + Cardinality(new) <= MaxAdmissions
      /\ pool' = pool \cup objects
      /\ newTxs' = newTxs \o SetToSeq(objects)
      /\ admitted' = admitted \cup objects
  BY DEF AddAll
<1>3. \A tx \in new : Fresh(tx)[1] = tx
  BY DEF Fresh
<1>4. IsFiniteSet(objects)
  <2> DEFINE f == [tx \in new |-> Fresh(tx)]
  <2> HIDE DEF new
  <2>1. IsFiniteSet({f[tx] : tx \in new})
    BY <1>1, FiniteImage
  <2>2. {f[tx] : tx \in new} = objects
    OBVIOUS
  <2> QED
    BY <2>1, <2>2
<1>5. \A tx \in new : Fresh(tx) \notin admitted /\ Fresh(tx) \in Objects
  BY <1>1, FreshIsNew
<1>6. ASSUME NEW tx \in new
      PROVE  Fresh(tx)[2] < MaxAdmissions
  <2>1. Cardinality(new) \in Nat /\ Cardinality(new) # 0
    <3> HIDE DEF new
    <3> QED
      BY <1>1, FS_EmptySet, FS_CardinalityType
  <2>2. Fresh(tx)[2] \in Nat /\ Fresh(tx)[2] <= Cardinality(admitted)
        /\ Cardinality(admitted) \in Nat
    BY <1>1, FreshIsNew DEF Objects
  <2> HIDE DEF new
  <2> QED
    BY <1>2, <2>1, <2>2, JourneyAssumption
<1>7. objects \subseteq Objects /\ objects \cap admitted = {}
  BY <1>5
<1>8. \A o \in objects : o[1] \in txs /\ o[2] < MaxAdmissions
  BY <1>1, <1>3, <1>6
<1>9. newTxs' \in Seq(Objects) /\ Range(newTxs') = Range(newTxs) \cup objects
  <2> HIDE DEF objects
  <2> DEFINE list == SetToSeq(objects)
  <2>1. list \in Seq(objects) /\ \A o \in objects : \E i \in DOMAIN list : list[i] = o
    BY <1>4, Listed
  <2> HIDE DEF list
  <2>2. list \in Seq(Objects) /\ Range(list) = objects
    BY <1>7, <2>1 DEF Range
  <2> QED
    BY <1>2, <2>2, RangeOfAppended DEF Shape, list
<1>10. IsFiniteSet(admitted')
  BY <1>2, <1>4, FS_Union DEF Shape
<1>11. Once'
  <2>1. \A tx \in new : \A o \in pool : o[1] # tx
    BY DEF New, PoolHas
  <2>2. \A o, p \in objects : o # p => o[1] # p[1]
    BY <1>3
  <2>3. \A o \in objects : \A p \in pool : o[1] # p[1]
    BY <1>3, <2>1
  <2> HIDE DEF objects
  <2> QED
    BY <1>2, <2>2, <2>3 DEF Once
<1>12. Counted'
  <2> SUFFICES ASSUME NEW o \in admitted'
               PROVE  o[2] < Cardinality({p \in admitted' : p[1] = o[1]})
    BY DEF Counted
  <2> DEFINE old == {p \in admitted : p[1] = o[1]}
             same == {p \in admitted' : p[1] = o[1]}
  <2>1. IsFiniteSet(old) /\ IsFiniteSet(same) /\ Cardinality(old) \in Nat
        /\ Cardinality(same) \in Nat
    BY <1>10, FS_Subset, FS_CardinalityType DEF Shape
  <2>2. old \subseteq same
    BY <1>2
  <2>3. Cardinality(old) <= Cardinality(same)
    BY <2>1, <2>2, FS_Subset
  <2>4. ASSUME o \in admitted
        PROVE  o[2] < Cardinality(same)
    <3>1. o[2] < Cardinality(old)
      BY <2>4 DEF Counted
    <3>2. o[2] \in Nat
      BY <2>4 DEF Shape, Objects
    <3> HIDE DEF old, same
    <3> QED
      BY <2>1, <2>3, <3>1, <3>2
  <2>5. ASSUME o \in objects
        PROVE  o[2] < Cardinality(same)
    <3>1. o \notin admitted /\ o[2] = Cardinality(old)
      <4>1. PICK tx \in new : o = Fresh(tx)
        BY <2>5
      <4>2. o[1] = tx /\ o[2] = Cardinality({p \in admitted : p[1] = tx})
        BY <4>1 DEF Fresh
      <4>3. o[2] = Cardinality({p \in admitted : p[1] = o[1]})
        BY <4>2
      <4> HIDE DEF new
      <4> QED
        BY <4>1, <4>3, <1>5
    <3>2. old \cup {o} \subseteq same /\ o \notin old
      BY <2>2, <3>1
    <3> HIDE DEF old, same
    <3>3. IsFiniteSet(old \cup {o}) /\ Cardinality(old \cup {o}) = Cardinality(old) + 1
      BY <2>1, <3>2, FS_AddElement
    <3>4. Cardinality(old \cup {o}) <= Cardinality(same)
      BY <2>1, <3>2, FS_Subset
    <3> QED
      BY <2>1, <3>1, <3>3, <3>4
  <2> QED
    BY <1>2, <2>4, <2>5
<1> HIDE DEF objects
<1> QED
  BY <1>2, <1>7, <1>8, <1>9, <1>10, <1>11, <1>12

-----------------------------------------------------------------------------
(* What is gossiped                                                        *)

\* NewTxs takes the objects of the list the ids of which the mempool still has.
LEMMA Kept ==
  ASSUME NEW list \in Seq(Objects)
  PROVE  /\ KeptOfFirst(list)[Len(list)] \in Seq(Objects)
         /\ \A o : o \in Range(KeptOfFirst(list)[Len(list)]) <=> o \in Range(list) /\ PoolHas(o[1])
<1> DEFINE N == Len(list)
           S == Seq(Objects)
           Take(kept, o) == IF PoolHas(o[1]) THEN Append(kept, o) ELSE kept
           step == [n \in 1..N |-> [kept \in S |-> Take(kept, list[n])]]
           Runs(f) == f = [n \in 0..N |-> IF n = 0 THEN <<>> ELSE
                             IF PoolHas(list[n][1]) THEN Append(f[n - 1], list[n]) ELSE f[n - 1]]
           run == KeptOfFirst(list)
<1>1. N \in Nat /\ DOMAIN list = 1..N /\ \A n \in 1..N : list[n] \in Objects
  OBVIOUS
<1>2. <<>> \in S /\ \A kept \in S : \A o \in Objects : Take(kept, o) \in S
  OBVIOUS
<1>3. step \in [1..N -> [S -> S]]
  <2> HIDE DEF N, S, Take
  <2> QED
    BY <1>1, <1>2
<1>4. \E f : Runs(f)
  <2> HIDE DEF N, S, step
  <2>1. PICK f \in [0..N -> S] : FollowsUpTo(N, f, <<>>, step)
    BY <1>1, <1>2, <1>3, RecursionUpTo
  <2>2. f = [n \in 0..N |-> IF n = 0 THEN <<>> ELSE step[n][f[n - 1]]]
    BY <2>1 DEF FollowsUpTo
  <2>3. ASSUME NEW n \in 1..N
        PROVE  step[n][f[n - 1]] = Take(f[n - 1], list[n])
    <3>1. f[n - 1] \in S
      BY <1>1
    <3> HIDE DEF Take
    <3> QED
      BY <3>1 DEF step
  <2>4. \A n \in 0..N : (IF n = 0 THEN <<>> ELSE step[n][f[n - 1]])
                          = IF n = 0 THEN <<>> ELSE Take(f[n - 1], list[n])
    BY <1>1, <2>3
  <2>5. Runs(f)
    BY <2>2, <2>4, Zenon
  <2> QED
    BY <2>5
<1>5. Runs(run)
  <2>1. run = CHOOSE f : Runs(f)
    BY DEF KeptOfFirst
  <2> HIDE DEF Runs, run
  <2> QED
    BY <1>4, <2>1
<1> HIDE DEF run, N
<1>6. run[0] = <<>>
  BY <1>1, <1>5
<1>7. ASSUME NEW n \in 0..(N - 1)
      PROVE  run[n + 1] = Take(run[n], list[n + 1])
  <2>1. n + 1 \in 0..N /\ n + 1 # 0 /\ (n + 1) - 1 = n
    BY <1>1
  <2>2. run[n + 1] = IF n + 1 = 0 THEN <<>> ELSE
                       IF PoolHas(list[n + 1][1]) THEN Append(run[(n + 1) - 1], list[n + 1])
                                                  ELSE run[(n + 1) - 1]
    BY <1>5, <2>1
  <2> QED
    BY <2>1, <2>2
<1> DEFINE P(n) == /\ run[n] \in S
                   /\ \A o : o \in Range(run[n]) <=>
                               \E i \in 1..n : o = list[i] /\ PoolHas(list[i][1])
           T == {n \in 0..N : P(n)}
<1>8. 0 \in T
  <2>1. run[0] \in S /\ Range(run[0]) = {}
    BY <1>6 DEF Range
  <2>2. \A i : i \notin 1..0
    OBVIOUS
  <2>3. P(0)
    BY <2>1, <2>2
  <2> QED
    BY <1>1, <2>3
<1>9. ASSUME NEW n \in 0..(N - 1), n \in T
      PROVE  n + 1 \in T
  <2>1. n + 1 \in 1..N /\ (n + 1) - 1 = n /\ n \in Nat
    BY <1>1
  <2>2. run[n + 1] = IF PoolHas(list[n + 1][1]) THEN Append(run[n], list[n + 1]) ELSE run[n]
    BY <1>7
  <2>3. \A i : i \in 1..(n + 1) <=> i \in 1..n \/ i = n + 1
    BY <2>1
  <2>4. P(n) /\ list[n + 1] \in Objects
    BY <1>1, <1>9, <2>1
  <2>5. CASE PoolHas(list[n + 1][1])
    <3>1. run[n + 1] = run[n] \o <<list[n + 1]>> /\ <<list[n + 1]>> \in S
      BY <2>2, <2>4, <2>5
    <3>2. Range(<<list[n + 1]>>) = {list[n + 1]}
      BY DEF Range
    <3>3. run[n + 1] \in S /\ Range(run[n + 1]) = Range(run[n]) \cup {list[n + 1]}
      <4> DEFINE last == <<list[n + 1]>>
                 kept == run[n]
      <4>1. last \in Seq(Objects) /\ kept \in Seq(Objects)
        BY <2>4, <3>1
      <4> HIDE DEF last, kept
      <4>2. kept \o last \in Seq(Objects) /\ Range(kept \o last) = Range(kept) \cup Range(last)
        BY <4>1, RangeOfAppended
      <4> QED
        BY <3>1, <3>2, <4>2 DEF last, kept
    <3>4. P(n + 1)
      BY <2>3, <2>4, <2>5, <3>3
    <3> QED
      BY <2>1, <3>4
  <2>6. CASE ~PoolHas(list[n + 1][1])
    <3>1. run[n + 1] = run[n]
      BY <2>2, <2>6
    <3>2. P(n + 1)
      BY <2>3, <2>4, <2>6, <3>1
    <3> QED
      BY <2>1, <3>2
  <2> QED
    BY <2>5, <2>6
<1>10. P(N)
  <2>1. 0..N \subseteq T
    <3> HIDE DEF T
    <3> QED
      BY <1>1, <1>8, <1>9, InductionUpTo
  <2>2. N \in T
    <3> HIDE DEF T
    <3> QED
      BY <1>1, <2>1
  <2> HIDE DEF P
  <2> QED
    BY <2>2
<1>11. \A o : o \in Range(list) /\ PoolHas(o[1]) <=>
               \E i \in 1..N : o = list[i] /\ PoolHas(list[i][1])
  BY <1>1 DEF Range
<1> QED
  BY <1>10, <1>11 DEF run, N

\* GossipNewTxs considers an object for each id in its list.
LEMMA First ==
  ASSUME NEW list \in Seq(Objects)
  PROVE  /\ FirstOfEach(list) \subseteq Range(list)
         /\ \A o \in Range(list) : \E p \in FirstOfEach(list) : p[1] = o[1]
<1>1. Len(list) \in Nat /\ DOMAIN list = 1..Len(list)
  OBVIOUS
<1> DEFINE Found(i) == \E p \in FirstOfEach(list) : p[1] = list[i][1]
           T == {n \in Nat : \A i \in DOMAIN list : i <= n => Found(i)}
<1>2. 0 \in T
  BY <1>1
<1>3. ASSUME NEW n \in Nat, n \in T
      PROVE  n + 1 \in T
  <2>1. ASSUME n + 1 \in DOMAIN list
        PROVE  Found(n + 1)
    <3>1. CASE \E j \in 1..n : list[j][1] = list[n + 1][1]
      BY <1>1, <1>3, <2>1, <3>1
    <3>2. CASE \A j \in 1..n : list[j][1] # list[n + 1][1]
      <4>1. (n + 1) - 1 = n
        OBVIOUS
      <4>2. list[n + 1] \in FirstOfEach(list)
        BY <2>1, <3>2, <4>1 DEF FirstOfEach
      <4> QED
        BY <4>2
    <3> QED
      BY <3>1, <3>2
  <2>2. \A i \in DOMAIN list : i <= n + 1 => i <= n \/ i = n + 1
    BY <1>1
  <2> HIDE DEF Found
  <2> QED
    BY <1>3, <2>1, <2>2
<1>4. Nat \subseteq T
  <2> HIDE DEF T
  <2> QED
    BY <1>2, <1>3, Induction
<1>5. \A i \in DOMAIN list : Found(i)
  BY <1>1, <1>4
<1> QED
  BY <1>5 DEF FirstOfEach, Range

-----------------------------------------------------------------------------
(* Every step preserves the invariant                                      *)

\* Blocks that no step touches stay as they should be, while the mempool takes
\* back no object it had given away.
LEMMA BlocksStay ==
  ASSUME BlocksKept, blocks' = blocks, admitted \subseteq admitted', signed \subseteq signed',
         (pool' \ pool) \cap admitted = {}
  PROVE  BlocksKept'
<1> SUFFICES ASSUME NEW i \in DOMAIN blocks
             PROVE  BlockKept(blocks[i])'
  BY DEF BlocksKept
<1>1. BlockKept(blocks[i])
  BY DEF BlocksKept
<1> QED
  BY <1>1 DEF BlockKept, LinkedTxs

\* Steps of users, of the clock and of Submit.
LEMMA SubmitInv ==
  ASSUME Inv
  PROVE  /\ \A tx \in Ids : Request(tx) => Inv'
         /\ SpaceMoves => Inv'
         /\ \A msg \in Messages : Submit(msg) => Inv'
<1>1. ASSUME NEW tx \in Ids, Request(tx)
      PROVE  Inv'
  <2>1. /\ signed' = signed \cup {tx} /\ UNCHANGED <<space, pool, newTxs, admitted, selected>>
        /\ UNCHANGED <<appSender, gossiped, sent, lost, blocks, linked>>
    BY <1>1 DEF Request, poolVars, gossipVars, blockVars
  <2>2. BlocksKept'
    BY <2>1, BlocksStay DEF Inv
  <2>3. Shape' /\ Held'
    BY <2>1 DEF Inv, Shape, Held, Range
  <2>4. Once' /\ Counted' /\ (pool \cap linked)' = {}
    BY <2>1 DEF Inv, Once, Counted
  <2>5. Offered'
    BY <2>1 DEF Inv, Offered
  <2> QED
    BY <2>2, <2>3, <2>4, <2>5 DEF Inv
<1>2. ASSUME SpaceMoves
      PROVE  Inv'
  <2>1. /\ space' \in {"absent", "live", "due", "overdue"}
        /\ UNCHANGED <<signed, pool, newTxs, admitted, selected, appSender, gossiped, sent, lost, blocks, linked>>
    BY <1>2 DEF SpaceMoves, poolVars, gossipVars, blockVars
  <2>2. BlocksKept'
    BY <2>1, BlocksStay DEF Inv
  <2>3. Shape' /\ Held'
    BY <2>1 DEF Inv, Shape, Held, Range
  <2>4. Once' /\ Counted' /\ (pool \cap linked)' = {}
    BY <2>1 DEF Inv, Once, Counted
  <2>5. Offered'
    BY <2>1 DEF Inv, Offered
  <2> QED
    BY <2>2, <2>3, <2>4, <2>5 DEF Inv
<1>3. ASSUME NEW msg \in Messages, Submit(msg)
      PROVE  Inv'
  <2>1. PICK recent : AddAll(Passed(recent, msg))
    BY <1>3 DEF Submit
  <2>2. UNCHANGED <<signed, space, selected, appSender, gossiped, sent, lost, blocks, linked>>
    BY <1>3 DEF Submit, gossipVars, blockVars
  <2>3. msg \in Seq(signed \X BOOLEAN)
    BY MessagesAreLists
  <2>4. Passed(recent, msg) \subseteq signed
    BY <2>3, PassedIsAdmissible DEF Inv, Shape
  <2>5. PICK objects \in SUBSET Objects :
           /\ pool' = pool \cup objects /\ admitted' = admitted \cup objects
           /\ newTxs' \in Seq(Objects) /\ Range(newTxs') = Range(newTxs) \cup objects
           /\ objects \cap admitted = {} /\ IsFiniteSet(admitted')
           /\ \A o \in objects : o[1] \in Passed(recent, msg) /\ o[2] < MaxAdmissions
           /\ Once' /\ Counted'
    BY <2>1, <2>4, Added DEF Inv
  <2>6. BlocksKept'
    BY <2>2, <2>5, BlocksStay DEF Inv
  <2>7. Shape'
    BY <2>2, <2>5 DEF Inv, Shape
  <2>8. Held'
    BY <2>2, <2>4, <2>5 DEF Inv, Held
  <2>9. (pool \cap linked)' = {}
    BY <2>2, <2>5 DEF Inv, Held
  <2>10. Offered'
    BY <2>2, <2>5 DEF Inv, Offered
  <2> QED
    BY <2>5, <2>6, <2>7, <2>8, <2>9, <2>10 DEF Inv
<1> QED
  BY <1>1, <1>2, <1>3

\* An object in bytes: a transaction as it was signed, unless it is linked.
LEMMA ItemIs ==
  ASSUME NEW o \in Objects
  PROVE  /\ Item(o) \in ItemType
         /\ o \in linked => Item(o) = <<o[1], TRUE>>
         /\ o \notin linked => Item(o) = <<o[1], FALSE>>
<1>1. o[1] \in Ids
  BY DEF Objects
<1>2. ASSUME o \in linked
      PROVE  Item(o) = <<o[1], TRUE>>
  <2>1. (o \in linked) = TRUE
    BY <1>2
  <2> QED
    BY <2>1, Zenon DEF Item
<1>3. ASSUME o \notin linked
      PROVE  Item(o) = <<o[1], FALSE>>
  <2>1. (o \in linked) = FALSE
    BY <1>3
  <2> QED
    BY <2>1, Zenon DEF Item
<1>4. <<o[1], TRUE>> \in ItemType /\ <<o[1], FALSE>> \in ItemType
  BY <1>1 DEF ItemType
<1> QED
  BY <1>2, <1>3, <1>4

\* A message that fails makes no difference to what was tried.
LEMMA Tried ==
  ASSUME NEW objects, SendTxs(objects)
  PROVE  (sent \cup lost)' = (sent \cup lost) \cup {Item(o) : o \in objects}
BY DEF SendTxs

\* Steps that gossip or lose transactions.
LEMMA GossipInv ==
  ASSUME Inv
  PROVE  /\ NewTxs => Inv'
         /\ GossipNewTxs => Inv'
         /\ RegossipTxs => Inv'
         /\ \A o \in pool : Drop(o) => Inv'
<1>1. ASSUME NewTxs
      PROVE  Inv'
  <2>1. /\ selected = <<>> /\ newTxs' = <<>> /\ selected' = KeptOfFirst(newTxs)[Len(newTxs)]
        /\ UNCHANGED <<signed, space, pool, admitted, appSender, gossiped, sent, lost, blocks, linked>>
    BY <1>1 DEF NewTxs, blockVars
  <2>2. /\ selected' \in Seq(Objects)
        /\ \A o : o \in Range(selected') <=> o \in Range(newTxs) /\ PoolHas(o[1])
    BY <2>1, Kept DEF Inv, Shape
  <2>3. Range(selected) = {} /\ Range(newTxs') = {}
    BY <2>1 DEF Range
  <2>4. BlocksKept'
    BY <2>1, BlocksStay DEF Inv
  <2>5. Shape' /\ Held'
    BY <2>1, <2>2, <2>3 DEF Inv, Shape, Held
  <2>6. Once' /\ Counted' /\ (pool \cap linked)' = {}
    BY <2>1 DEF Inv, Once, Counted
  <2>7. Offered'
    BY <2>1, <2>2, <2>3 DEF Inv, Offered, PoolHas
  <2> QED
    BY <2>4, <2>5, <2>6, <2>7 DEF Inv
<1>2. ASSUME GossipNewTxs
      PROVE  Inv'
  <2> DEFINE fresh == {o \in FirstOfEach(selected) : o[1] \notin gossiped}
  <2>1. /\ selected' = <<>>
        /\ \/ /\ appSender /\ gossiped' = gossiped \cup {o[1] : o \in fresh}
              /\ (sent \cup lost)' = (sent \cup lost) \cup {Item(o) : o \in fresh}
           \/ ~appSender /\ UNCHANGED <<gossiped, sent, lost>>
        /\ UNCHANGED <<signed, space, pool, newTxs, admitted, appSender, blocks, linked>>
    BY <1>2, Tried DEF GossipNewTxs, poolVars, blockVars
  <2>2. /\ FirstOfEach(selected) \subseteq Range(selected)
        /\ \A o \in Range(selected) : \E p \in FirstOfEach(selected) : p[1] = o[1]
    BY First DEF Inv, Shape
  <2>3. \A o \in fresh : o \in Objects
    BY <2>2 DEF Inv, Shape, Held
  <2>4. Range(selected') = {} /\ selected' \in Seq(Objects)
    BY <2>1 DEF Range
  <2>5. BlocksKept'
    BY <2>1, BlocksStay DEF Inv
  <2>6. Shape' /\ Held'
    <3>1. gossiped' \subseteq Ids /\ (sent \cup lost)' \subseteq ItemType
      BY <2>1, <2>3, ItemIs DEF Inv, Shape, Objects
    <3> QED
      BY <2>1, <2>4, <3>1 DEF Inv, Shape, Held
  <2>7. Once' /\ Counted' /\ (pool \cap linked)' = {}
    BY <2>1 DEF Inv, Once, Counted
  <2>8. Offered'
    <3>1. ASSUME appSender, NEW o \in pool'
          PROVE  o \in Range(newTxs') \cup Range(selected') \/ o[1] \in gossiped'
      <4>1. \A p \in Range(selected) : p[1] \in gossiped'
        BY <2>1, <2>2, <3>1
      <4> QED
        BY <2>1, <3>1, <4>1 DEF Inv, Offered
    <3>2. ASSUME NEW tx \in gossiped'
          PROVE  <<tx, FALSE>> \in (sent \cup lost)' \/ \E o \in linked' : o[1] = tx
      <4>1. CASE tx \in gossiped
        BY <2>1, <4>1 DEF Inv, Offered
      <4>2. CASE tx \notin gossiped
        <5>1. PICK o \in fresh : tx = o[1]
          BY <2>1, <4>2
        <5>2. Item(o) \in (sent \cup lost)' /\ (o \notin linked => Item(o) = <<tx, FALSE>>)
          BY <2>1, <2>3, <4>2, <5>1, ItemIs
        <5> QED
          BY <2>1, <5>1, <5>2
      <4> QED
        BY <4>1, <4>2
    <3> QED
      BY <2>1, <3>1, <3>2 DEF Offered
  <2> QED
    BY <2>5, <2>6, <2>7, <2>8 DEF Inv
<1>3. ASSUME RegossipTxs
      PROVE  Inv'
  <2>1. PICK popped \in SUBSET pool :
          /\ pool' = pool \ popped
          /\ gossiped' = gossiped \cup {o[1] : o \in popped}
          /\ (sent \cup lost)' = (sent \cup lost) \cup {Item(o) : o \in popped}
    BY <1>3, Tried DEF RegossipTxs
  <2>2. UNCHANGED <<signed, space, newTxs, admitted, appSender, selected, blocks, linked>>
    BY <1>3 DEF RegossipTxs, blockVars
  <2>3. BlocksKept'
    BY <2>1, <2>2, BlocksStay DEF Inv
  <2>4. Shape' /\ Held'
    <3>1. \A o \in popped : o \in Objects
      BY DEF Inv, Shape, Held
    <3>2. gossiped' \subseteq Ids /\ (sent \cup lost)' \subseteq ItemType
      BY <2>1, <3>1, ItemIs DEF Inv, Shape, Objects
    <3> QED
      BY <2>1, <2>2, <3>2 DEF Inv, Shape, Held
  <2>5. Once' /\ Counted' /\ (pool \cap linked)' = {}
    BY <2>1, <2>2 DEF Inv, Once, Counted
  <2>6. Offered'
    <3>1. \A o \in popped : o \notin linked /\ Item(o) = <<o[1], FALSE>>
      BY ItemIs DEF Inv, Shape, Held
    <3>2. \A o \in popped : <<o[1], FALSE>> \in (sent \cup lost)'
      BY <2>1, <3>1
    <3> HIDE DEF Inv
    <3>3. Offered
      BY DEF Inv
    <3> QED
      BY <2>1, <2>2, <3>2, <3>3 DEF Offered
  <2> QED
    BY <2>3, <2>4, <2>5, <2>6 DEF Inv
<1>4. ASSUME NEW o \in pool, Drop(o)
      PROVE  Inv'
  <2>1. /\ pool' = pool \ {o}
        /\ UNCHANGED <<signed, space, newTxs, admitted, selected, appSender, gossiped, sent, lost, blocks, linked>>
    BY <1>4 DEF Drop, gossipVars, blockVars
  <2>2. BlocksKept'
    BY <2>1, BlocksStay DEF Inv
  <2>3. Shape' /\ Held'
    BY <2>1 DEF Inv, Shape, Held
  <2>4. Once' /\ Counted' /\ (pool \cap linked)' = {}
    BY <2>1 DEF Inv, Once, Counted
  <2>5. Offered'
    BY <2>1 DEF Inv, Offered
  <2> QED
    BY <2>2, <2>3, <2>4, <2>5 DEF Inv
<1> QED
  BY <1>1, <1>2, <1>3, <1>4

\* Steps that make a block.
LEMMA NewBlockInv ==
  ASSUME Inv
  PROVE  (BuildBlock => Inv') /\ (ParseBlock => Inv')
<1>1. ASSUME NEW objects \in SUBSET admitted, objects \subseteq Objects,
             objects \cap pool' = {},
             NEW bytes \in Seq(ItemType), AddBlock(NewBlock(objects, bytes)),
             \A i \in DOMAIN bytes : bytes[i][1] \in signed /\ bytes[i][2] = FALSE,
             pool' \subseteq pool, \A o \in pool' : o \notin linked,
             UNCHANGED <<signed, space, newTxs, admitted, selected, appSender, gossiped, sent, lost, linked>>
      PROVE  Inv'
  <2> DEFINE b == NewBlock(objects, bytes)
  <2>1. b \in BlockType
    <3>1. <<>> \in Seq(ItemType)
      OBVIOUS
    <3> QED
      BY <1>1, <3>1 DEF NewBlock, BlockType
  <2>2. /\ b.objects = objects /\ b.bytes = bytes /\ b.txs = bytes /\ b.status = "new"
    BY DEF NewBlock
  <2> HIDE DEF b
  <2>3. blocks' = Append(blocks, b) /\ blocks \in Seq(BlockType)
    BY <1>1 DEF AddBlock, Inv, Shape, b
  <2>4. /\ blocks' \in Seq(BlockType)
        /\ \A i \in DOMAIN blocks' :
              (i \in DOMAIN blocks /\ blocks'[i] = blocks[i]) \/ blocks'[i] = b
    BY <2>1, <2>3
  <2>5. BlocksKept'
    <3> SUFFICES ASSUME NEW i \in DOMAIN blocks'
                 PROVE  BlockKept(blocks[i])'
      BY DEF BlocksKept
    <3>1. CASE blocks'[i] = b
      BY <1>1, <2>2, <3>1 DEF BlockKept
    <3>2. CASE i \in DOMAIN blocks /\ blocks'[i] = blocks[i]
      <4>1. BlockKept(blocks[i])
        BY <3>2 DEF Inv, BlocksKept
      <4> QED
        BY <1>1, <3>2, <4>1 DEF BlockKept, LinkedTxs
    <3> QED
      BY <2>4, <3>1, <3>2
  <2>6. Shape' /\ Held'
    BY <1>1, <2>4 DEF Inv, Shape, Held
  <2>7. Once' /\ Counted' /\ (pool \cap linked)' = {}
    BY <1>1 DEF Inv, Once, Counted
  <2>8. Offered'
    BY <1>1 DEF Inv, Offered
  <2> QED
    BY <2>5, <2>6, <2>7, <2>8 DEF Inv
<1>2. ASSUME BuildBlock
      PROVE  Inv'
  <2>1. PICK popped \in SUBSET pool :
          /\ AddBlock(NewBlock(popped, Items(SetToSeq(popped))))
          /\ pool' = pool \ popped
    BY <1>2 DEF BuildBlock
  <2>2. UNCHANGED <<signed, space, newTxs, admitted, selected, appSender, gossiped, sent, lost, linked>>
    BY <1>2 DEF BuildBlock, gossipVars
  <2>3. popped \subseteq admitted /\ popped \subseteq Objects /\ IsFiniteSet(popped)
    BY FS_Subset DEF Inv, Shape, Held
  <2> DEFINE list == SetToSeq(popped)
             bytes == Items(list)
  <2>4. list \in Seq(popped)
    BY <2>3, Listed
  <2>5. /\ DOMAIN list = 1..Len(list) /\ Len(list) \in Nat
        /\ \A i \in DOMAIN list : list[i] \in popped
    BY <2>4
  <2>6. bytes = [i \in 1..Len(list) |-> Item(list[i])]
    BY <2>5 DEF Items
  <2>7. ASSUME NEW i \in DOMAIN list
        PROVE  /\ Item(list[i]) \in ItemType /\ Item(list[i])[1] \in signed
               /\ Item(list[i])[2] = FALSE
    <3> DEFINE o == list[i]
    <3>1. o \in popped /\ o \in Objects /\ o \notin linked /\ o[1] \in signed
      BY <2>3, <2>5 DEF Inv, Held
    <3> HIDE DEF o
    <3>2. Item(o) = <<o[1], FALSE>> /\ Item(o) \in ItemType
      BY <3>1, ItemIs
    <3> QED
      BY <3>1, <3>2 DEF o
  <2> HIDE DEF list
  <2>8. bytes \in Seq(ItemType)
    <3>1. bytes \in [1..Len(list) -> ItemType]
      BY <2>5, <2>6, <2>7
    <3> HIDE DEF bytes
    <3> QED
      BY <2>5, <3>1, ListIsSeq
  <2>9. \A i \in DOMAIN bytes : bytes[i][1] \in signed /\ bytes[i][2] = FALSE
    BY <2>5, <2>6, <2>7
  <2>10. \A o \in pool' : o \notin linked
    BY <2>1 DEF Inv
  <2>11. AddBlock(NewBlock(popped, bytes))
    BY <2>1 DEF list
  <2> HIDE DEF bytes
  <2> QED
    BY <1>1, <2>1, <2>2, <2>3, <2>8, <2>9, <2>10, <2>11
<1>3. ASSUME ParseBlock
      PROVE  Inv'
  <2>1. PICK txs \in SUBSET signed :
          AddBlock(NewBlock({}, [i \in 1..Cardinality(txs) |-> <<SetToSeq(txs)[i], FALSE>>]))
    BY <1>3 DEF ParseBlock
  <2>2. UNCHANGED <<signed, space, pool, newTxs, admitted, selected, appSender, gossiped, sent, lost, linked>>
    BY <1>3 DEF ParseBlock, gossipVars, poolVars
  <2> DEFINE list == SetToSeq(txs)
             n == Cardinality(txs)
             bytes == [i \in 1..n |-> <<list[i], FALSE>>]
  <2>3. IsFiniteSet(txs)
    BY Known, FS_Subset DEF Inv, Shape
  <2>4. n \in Nat /\ list \in Seq(txs) /\ Len(list) = n
    BY <2>3, Listed
  <2>5. \A i \in 1..n : list[i] \in signed /\ list[i] \in Ids
    BY <2>4 DEF Inv, Shape
  <2>6. AddBlock(NewBlock({}, bytes))
    BY <2>1
  <2> HIDE DEF n, list
  <2>7. bytes \in Seq(ItemType)
    <3>1. bytes \in [1..n -> ItemType]
      BY <2>5 DEF ItemType
    <3> HIDE DEF bytes
    <3> QED
      BY <2>4, <3>1, ListIsSeq
  <2>8. \A i \in DOMAIN bytes : bytes[i][1] \in signed /\ bytes[i][2] = FALSE
    BY <2>5
  <2>9. \A o \in pool' : o \notin linked
    BY <2>2 DEF Inv
  <2> HIDE DEF bytes
  <2>10. /\ {} \subseteq Objects /\ {} \in SUBSET admitted
         /\ pool' \subseteq pool /\ {} \cap pool' = {}
    BY <2>2
  <2> QED
    BY <1>1, <2>2, <2>6, <2>7, <2>8, <2>9, <2>10
<1> QED
  BY <1>2, <1>3

\* When one block changes, the others stay as they should be.
LEMMA OneBlock ==
  ASSUME Shape, BlocksKept, NEW b \in DOMAIN blocks, NEW new \in BlockType,
         blocks' = [blocks EXCEPT ![b] = new], new.objects = blocks[b].objects,
         admitted \subseteq admitted', signed' = signed, (pool' \ pool) \cap admitted = {},
         new.bytes = blocks[b].bytes, new.txs = new.bytes,
         new.status # "new" =>
           /\ new.stored = LinkedTxs(new.bytes)
           /\ new.values = {tx \in {new.bytes[i][1] : i \in DOMAIN new.bytes} : IsSet(tx)}
  PROVE  blocks' \in Seq(BlockType) /\ BlocksKept'
<1>1. blocks \in Seq(BlockType) /\ DOMAIN blocks' = DOMAIN blocks /\ blocks'[b] = new
      /\ \A i \in DOMAIN blocks : i # b => blocks'[i] = blocks[i]
  BY DEF Shape
<1>2. blocks' \in Seq(BlockType)
  BY <1>1
<1>3. ASSUME NEW i \in DOMAIN blocks'
      PROVE  BlockKept(blocks[i])'
  <2>1. BlockKept(blocks[i])
    BY <1>1 DEF BlocksKept
  <2>2. CASE i = b
    BY <1>1, <2>1, <2>2 DEF BlockKept, LinkedTxs
  <2>3. CASE i # b
    <3>1. blocks'[i] = blocks[i]
      BY <1>1, <2>3
    <3> QED
      BY <2>1, <3>1 DEF BlockKept, LinkedTxs
  <2> QED
    BY <2>2, <2>3
<1> QED
  BY <1>2, <1>3 DEF BlocksKept

\* Steps of a block on its way.
LEMMA BlockInv ==
  ASSUME Inv, NEW b \in DOMAIN blocks
  PROVE  /\ Verify(b) => Inv'
         /\ Accept(b) => Inv'
         /\ Reject(b) => Inv'
<1> DEFINE blk == blocks[b]
           bytes == blk.bytes
<1>1. blk \in BlockType /\ BlockKept(blk) /\ bytes \in Seq(ItemType)
      /\ TxsOf(b) = {bytes[i][1] : i \in DOMAIN bytes}
  <2>1. blk \in BlockType
    BY DEF Inv, Shape
  <2>2. BlockKept(blk)
    BY DEF Inv, BlocksKept
  <2>3. bytes \in Seq(ItemType)
    BY <2>1 DEF BlockType
  <2> QED
    BY <2>1, <2>2, <2>3 DEF TxsOf
<1>2. /\ blk.objects \in SUBSET Objects /\ blk.txs \in Seq(ItemType) /\ blk.stored \in Seq(ItemType)
      /\ blk.values \in SUBSET Ids
      /\ blk = [status |-> blk.status, objects |-> blk.objects, bytes |-> blk.bytes,
                txs |-> blk.txs, stored |-> blk.stored, values |-> blk.values]
  BY <1>1 DEF BlockType
<1>3. blocks = [i \in DOMAIN blocks |-> blocks[i]]
  BY DEF Inv, Shape
<1>4. ASSUME Verify(b)
      PROVE  Inv'
  <2> DEFINE values == {tx \in TxsOf(b) : IsSet(tx)}
             new == [blk EXCEPT !.status = "processing", !.txs = bytes,
                                !.stored = LinkedTxs(bytes), !.values = values]
  <2>1. /\ linked' = linked \cup {o \in blk.objects : IsSet(o[1])}
        /\ pool' = {o \in pool : o[1] \notin TxsOf(b)}
        /\ UNCHANGED <<signed, space, newTxs, admitted, selected, appSender, gossiped, sent, lost>>
    BY <1>4 DEF Verify, gossipVars
  <2>2. blocks' = [blocks EXCEPT ![b] = new]
    BY <1>4 DEF Verify, OriginalTxs
  <2>3. LinkedTxs(bytes) \in Seq(ItemType)
    <3>1. LinkedTxs(bytes) = [i \in 1..Len(bytes) |-> <<bytes[i][1], IsSet(bytes[i][1])>>]
      BY <1>1 DEF LinkedTxs
    <3>2. \A i \in 1..Len(bytes) : bytes[i][1] \in Ids
      BY <1>1 DEF ItemType
    <3>3. \A tx : IsSet(tx) \in BOOLEAN
      BY DEF IsSet
    <3>4. \A i \in 1..Len(bytes) : <<bytes[i][1], IsSet(bytes[i][1])>> \in ItemType
      BY <3>2, <3>3 DEF ItemType
    <3>5. LinkedTxs(bytes) \in [1..Len(bytes) -> ItemType]
      BY <3>1, <3>4
    <3>6. Len(bytes) \in Nat
      BY <1>1
    <3> HIDE DEF bytes
    <3> QED
      BY <3>5, <3>6, ListIsSeq
  <2>4. values \in SUBSET Ids
    BY <1>1 DEF ItemType
  <2>5. new \in BlockType
    <3> HIDE DEF values, bytes
    <3> QED
      BY <1>1, <1>2, <2>3, <2>4 DEF BlockType
  <2>6. /\ new.objects = blk.objects /\ new.bytes = bytes /\ new.txs = new.bytes
        /\ new.stored = LinkedTxs(new.bytes)
        /\ new.values = {tx \in {new.bytes[i][1] : i \in DOMAIN new.bytes} : IsSet(tx)}
    <3>1. /\ new.objects = blk.objects /\ new.bytes = bytes /\ new.txs = bytes
          /\ new.stored = LinkedTxs(bytes) /\ new.values = values
      <4> HIDE DEF bytes, values
      <4> QED
        BY <1>2 DEF bytes
    <3> HIDE DEF new
    <3> QED
      BY <1>1, <3>1
  <2>7. blocks' \in Seq(BlockType) /\ BlocksKept'
    <3>1. (pool' \ pool) \cap admitted = {} /\ admitted \subseteq admitted' /\ signed' = signed
      BY <2>1
    <3> HIDE DEF new
    <3> QED
      BY <2>2, <2>5, <2>6, <3>1, OneBlock DEF Inv
  <2>8. Shape' /\ Held'
    <3>1. linked' \subseteq admitted
      BY <1>1, <2>1 DEF Inv, Held, BlockKept
    <3> QED
      BY <2>1, <2>7, <3>1 DEF Inv, Shape, Held
  <2>9. Once' /\ Counted'
    BY <2>1 DEF Inv, Once, Counted
  <2>10. (pool \cap linked)' = {}
    BY <1>1, <2>1 DEF Inv, BlockKept
  <2>11. Offered'
    BY <2>1 DEF Inv, Offered
  <2> QED
    BY <2>7, <2>8, <2>9, <2>10, <2>11 DEF Inv
<1>5. ASSUME NEW status \in {"accepted", "rejected"}, blk.status = "processing",
             blocks' = [blocks EXCEPT ![b].status = status],
             admitted \subseteq admitted', signed' = signed, (pool' \ pool) \cap admitted = {}
      PROVE  blocks' \in Seq(BlockType) /\ BlocksKept'
  <2> DEFINE new == [blk EXCEPT !.status = status]
  <2>1. new \in BlockType
    BY <1>1 DEF BlockType
  <2>2. /\ new.objects = blk.objects /\ new.bytes = bytes /\ new.txs = blk.txs
        /\ new.stored = blk.stored /\ new.values = blk.values
    BY <1>2
  <2>3. blocks' = [blocks EXCEPT ![b] = new]
    BY <1>5
  <2>4. /\ blk.txs = bytes /\ blk.stored = LinkedTxs(bytes)
        /\ blk.values = {tx \in {bytes[i][1] : i \in DOMAIN bytes} : IsSet(tx)}
    BY <1>1, <1>5 DEF BlockKept
  <2> HIDE DEF new
  <2>5. Shape /\ BlocksKept
    BY DEF Inv
  <2>6. /\ new.objects = blk.objects /\ new.bytes = blk.bytes /\ new.txs = new.bytes
        /\ new.stored = LinkedTxs(new.bytes)
        /\ new.values = {tx \in {new.bytes[i][1] : i \in DOMAIN new.bytes} : IsSet(tx)}
    BY <2>2, <2>4
  <2> HIDE DEF blk, bytes
  <2>7. new.objects = blocks[b].objects /\ new.bytes = blocks[b].bytes
    BY <2>6 DEF blk
  <2> QED
    BY <1>5, <2>1, <2>3, <2>5, <2>6, <2>7, OneBlock
<1>6. ASSUME Accept(b)
      PROVE  Inv'
  <2>1. /\ blk.status = "processing"
        /\ blocks' = [blocks EXCEPT ![b].status = "accepted"]
        /\ UNCHANGED <<signed, space, pool, newTxs, admitted, selected, appSender, gossiped, sent, lost, linked>>
    BY <1>6 DEF Accept, gossipVars, poolVars
  <2>2. blocks' \in Seq(BlockType) /\ BlocksKept'
    BY <1>5, <2>1
  <2>3. Shape' /\ Held'
    BY <2>1, <2>2 DEF Inv, Shape, Held
  <2>4. Once' /\ Counted' /\ (pool \cap linked)' = {}
    BY <2>1 DEF Inv, Once, Counted
  <2>5. Offered'
    BY <2>1 DEF Inv, Offered
  <2> QED
    BY <2>2, <2>3, <2>4, <2>5 DEF Inv
<1>7. ASSUME Reject(b)
      PROVE  Inv'
  <2> DEFINE txs == {blk.txs[i][1] : i \in DOMAIN blk.txs}
  <2>1. /\ blk.status = "processing" /\ AddAll(txs)
        /\ blocks' = [blocks EXCEPT ![b].status = "rejected"]
        /\ UNCHANGED <<signed, space, selected, appSender, gossiped, sent, lost, linked>>
    BY <1>7 DEF Reject, ReAdd, gossipVars
  <2>2. txs \subseteq signed
    BY <1>1 DEF BlockKept
  <2> HIDE DEF txs
  <2>3. PICK objects \in SUBSET Objects :
           /\ pool' = pool \cup objects /\ admitted' = admitted \cup objects
           /\ newTxs' \in Seq(Objects) /\ Range(newTxs') = Range(newTxs) \cup objects
           /\ objects \cap admitted = {} /\ IsFiniteSet(admitted')
           /\ \A o \in objects : o[1] \in txs /\ o[2] < MaxAdmissions
           /\ Once' /\ Counted'
    BY <2>1, <2>2, Added DEF Inv
  <2>4. blocks' \in Seq(BlockType) /\ BlocksKept'
    <3>1. (pool' \ pool) \cap admitted = {} /\ admitted \subseteq admitted'
      BY <2>3
    <3> QED
      BY <1>5, <2>1, <3>1
  <2>5. Shape' /\ Held'
    BY <2>1, <2>2, <2>3, <2>4 DEF Inv, Shape, Held
  <2>6. (pool \cap linked)' = {}
    BY <2>1, <2>3 DEF Inv, Held
  <2>7. Offered'
    BY <2>1, <2>3 DEF Inv, Offered
  <2> QED
    BY <2>3, <2>4, <2>5, <2>6, <2>7 DEF Inv
<1> QED
  BY <1>4, <1>6, <1>7

LEMMA StepInv ==
  ASSUME Inv, [Next]_vars
  PROVE  Inv'
<1>1. ASSUME NEW tx \in Ids, Request(tx)
      PROVE  Inv'
  BY <1>1, SubmitInv
<1>2. CASE SpaceMoves
  BY <1>2, SubmitInv
<1>3. ASSUME NEW msg \in Messages, Submit(msg)
      PROVE  Inv'
  BY <1>3, SubmitInv
<1>4. CASE NewTxs \/ GossipNewTxs \/ RegossipTxs
  BY <1>4, GossipInv
<1>5. ASSUME NEW o \in pool, Drop(o)
      PROVE  Inv'
  BY <1>5, GossipInv
<1>6. CASE BuildBlock \/ ParseBlock
  BY <1>6, NewBlockInv
<1>7. ASSUME NEW b \in DOMAIN blocks, Verify(b) \/ Accept(b) \/ Reject(b)
      PROVE  Inv'
  BY <1>7, BlockInv
<1>8. CASE UNCHANGED vars
  <2>1. UNCHANGED <<signed, space, pool, newTxs, admitted,
                    selected, appSender, gossiped, sent, lost, blocks, linked>>
    BY <1>8 DEF vars, poolVars, gossipVars, blockVars
  <2>2. BlocksKept'
    BY <2>1, BlocksStay DEF Inv
  <2>3. Shape' /\ Held'
    BY <2>1 DEF Inv, Shape, Held, Range
  <2>4. Once' /\ Counted' /\ (pool \cap linked)' = {}
    BY <2>1 DEF Inv, Once, Counted
  <2>5. Offered'
    BY <2>1 DEF Inv, Offered
  <2> QED
    BY <2>2, <2>3, <2>4, <2>5 DEF Inv
<1> QED
  BY <1>1, <1>2, <1>3, <1>4, <1>5, <1>6, <1>7, <1>8 DEF Next

LEMMA InvHolds == Spec => []Inv
<1>1. Init => Inv
  BY InitInv
<1>2. Inv /\ [Next]_vars => Inv'
  BY StepInv
<1> QED
  BY <1>1, <1>2, PTL DEF Spec

-----------------------------------------------------------------------------
(* What the run checks, for every instance                                 *)

\* Everything that is kept, listed, sent or lost is of transactions with a sender,
\* and the mempool holds one object for each id, of those it has admitted.
THEOREM TypeCorrect == Spec => []TypeOK
<1>1. Inv => TypeOK
  BY InvImplies
<1> QED
  BY <1>1, InvHolds, PTL

\* Nothing in the mempool, in a block in memory or behind linked values of an
\* accepted block differs from what was signed.  Messages may: see Offered.
THEOREM AllGenuine == Spec => []Genuine
<1>1. Inv => Genuine
  BY InvImplies
<1> QED
  BY <1>1, InvHolds, PTL

\* A transaction in the mempool is listed for gossip or counts as gossiped, if the
\* node can send messages; what counts as gossiped was tried to be sent as it was
\* signed, whether or not the message went out, unless linkValues had got at it.
THEOREM AllOffered == Spec => []Offered
<1>1. Inv => Offered
  BY DEF Inv
<1> QED
  BY <1>1, InvHolds, PTL

\* A transaction that waits in the mempool is what its sender's wallet has shown.
THEOREM AllAsShown == Spec => []AsShown
<1>1. Inv => AsShown
  BY InvImplies, AsShownFromTypeOK
<1> QED
  BY <1>1, InvHolds, PTL

\* No batch adds a transaction to the mempool that would not pass alone.
THEOREM SubmitIsConservative == Spec => SubmitConservative
<1> DEFINE Conservative ==
      UNCHANGED blockVars =>
        \A o \in pool' \ pool :
          /\ o[1] \notin AcceptedTxs
          /\ Funds[SenderOf[o[1]]] > 0
          /\ CASE TypeOf[o[1]] = "claim" -> space # "live"
               [] TypeOf[o[1]] = "transfer" -> TRUE
               [] OTHER -> space = "live"
<1>1. ASSUME Inv, [Next]_vars
      PROVE  Conservative
  <2> SUFFICES ASSUME UNCHANGED blockVars, NEW o \in pool' \ pool
               PROVE  o[1] \notin AcceptedTxs /\ Admissible(o[1])
    BY DEF Admissible
  <2>1. PICK msg \in Messages : Submit(msg)
    <3>1. ~(\E tx \in Ids : Request(tx)) /\ ~SpaceMoves /\ ~NewTxs /\ ~GossipNewTxs
      BY DEF Request, SpaceMoves, NewTxs, GossipNewTxs, poolVars
    <3>2. ~RegossipTxs /\ ~(\E p \in pool : Drop(p)) /\ ~BuildBlock /\ ~ParseBlock
      BY DEF RegossipTxs, Drop, BuildBlock, ParseBlock, poolVars
    <3>3. ASSUME NEW b \in DOMAIN blocks
          PROVE  ~Verify(b) /\ ~Accept(b) /\ ~Reject(b)
      <4>1. ~Verify(b)
        BY DEF Verify
      <4>2. ~Accept(b)
        BY DEF Accept, poolVars
      <4>3. ~Reject(b)
        <5> SUFFICES ASSUME Reject(b) PROVE FALSE
          OBVIOUS
        <5>1. blocks[b].status = "processing" /\ blocks = [blocks EXCEPT ![b].status = "rejected"]
          BY DEF Reject, blockVars
        <5>2. blocks[b] \in BlockType
          BY <1>1 DEF Inv, Shape
        <5>3. blocks[b].status = "rejected"
          BY <5>1, <5>2 DEF BlockType
        <5> QED
          BY <5>1, <5>3
      <4> QED
        BY <4>1, <4>2, <4>3
    <3>4. ~UNCHANGED vars
      BY DEF vars, poolVars
    <3> QED
      BY <1>1, <3>1, <3>2, <3>3, <3>4 DEF Next
  <2>2. PICK recent \in RecentTxs : AddAll(Passed(recent, msg))
    BY <2>1 DEF Submit
  <2>3. AcceptedTxs \subseteq recent
    BY <2>2 DEF RecentTxs
  <2>4. o[1] \in Passed(recent, msg)
    <3>1. PICK tx \in New(Passed(recent, msg)) : o = Fresh(tx)
      BY <2>2 DEF AddAll
    <3> QED
      BY <3>1 DEF Fresh, New
  <2>5. msg \in Seq(signed \X BOOLEAN)
    BY MessagesAreLists
  <2> QED
    BY <1>1, <2>3, <2>4, <2>5, PassedIsAdmissible DEF Inv, Shape
<1>2. Inv /\ [Next]_vars => Conservative
  BY <1>1
<1>3. Spec => [][Conservative]_vars
  <2> HIDE DEF Conservative
  <2> QED
    BY <1>2, InvHolds, PTL DEF Spec
<1> QED
  BY <1>3 DEF SubmitConservative

=============================================================================

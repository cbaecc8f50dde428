--------------------------- MODULE RegistrationProofs ---------------------------
(***************************************************************************)
(* Proofs about Registration, for every number of goroutines, every catalog    *)
(* and whatever other packages register: the catalog enters the registry once  *)
(* and in order, and what image.Decode answers from it afterwards.               *)
(***************************************************************************)
EXTENDS Registration, FiniteSetTheorems, WellFoundedInduction, TLAPS

\* An entry as image.RegisterFormat is given it.
Catalogued == [name : EntryNames, magic : Magics]

\* The places where a call can be.
Pcs == {"idle", "once", "lock", "loop", "unlock", "sniff", "rival", "read", "decode"}

Locals ==
  [ pc : Pcs, next : Nat, op : ImageOps \cup ReaderOps \cup {blank},
    src : Sources \cup {blank}, entry : Entries \cup {noEntry}, err : Errors,
    name : EntryNames \cup {blank} ]

(* What a call has in its locals. *)
Decoding(call) == call.pc \in {"sniff", "rival", "read", "decode"}

CallLocals(call) ==
  /\ call.err # "nil" => call.name = blank
  /\ call.pc # "idle" => call.err = "nil"
  /\ ~ Decoding(call) => call.op = blank
  /\ Decoding(call) => call.op \in ImageOps \cup ReaderOps /\ call.src \in Sources
  /\ call.pc = "rival" => ~ call.entry.ours
  /\ call.pc = "loop" => call.next # 0

(* Each of the catalog's entries has a place of its own in the registry: their
   ranks are all the numbers from 1 to how many they are. *)
Ranked(list) ==
  \A k \in 1..Cardinality(mine(list)) : \E i \in mine(list) : rank(list, i) = k

RegistryTypes ==
  /\ formats \in Seq(Entries)
  /\ onceDone \in BOOLEAN
  /\ onceMutex \in Goroutines \cup {nobody}
  /\ at \in [Goroutines -> Locals]
  /\ \A g \in Goroutines : CallLocals(at[g])
  /\ served \subseteq Goroutines

(* The mutex of sync.Once is that of the one goroutine between its Lock and its
   Unlock, and done is stored by the one that has been through the loop. *)
OneInLoop ==
  /\ onceMutex # nobody => at[onceMutex].pc \in {"loop", "unlock"}
  /\ \A g \in Goroutines :
       /\ at[g].pc \in {"loop", "unlock"} => onceMutex = g
       /\ at[g].pc = "unlock" => onceDone
       /\ at[g].pc = "loop" => ~ onceDone

(* How much of the catalog is registered at each stage of the Once. *)
CatalogSoFar ==
  /\ Ranked(formats)
  /\ onceDone => oursOf(formats) = Catalog
  /\ ~ onceDone /\ onceMutex = nobody => oursOf(formats) = <<>>
  /\ \A g \in Goroutines :
       at[g].pc = "loop" =>
         /\ at[g].next \in 1..(Len(Catalog) + 1)
         /\ oursOf(formats) = SubSeq(Catalog, 1, at[g].next - 1)
  /\ served # {} => onceDone

(* Every entry the adapter put there, or that image.Decode has chosen, is one of
   the catalog's. *)
FromCatalog(entry) ==
  \E k \in DOMAIN Catalog :
    /\ entry.name = Catalog[k].name
    /\ entry.magic = Catalog[k].magic

EntriesFromCatalog ==
  /\ \A i \in DOMAIN formats : formats[i].ours => FromCatalog(formats[i])
  /\ \A g \in Goroutines :
       at[g].entry.ours =>
         FromCatalog(at[g].entry) /\ <<at[g].entry.magic, at[g].src>> \in Matches

IInv ==
  /\ RegistryTypes
  /\ OneInLoop
  /\ CatalogSoFar
  /\ EntriesFromCatalog

----------------------------------------------------------------------------
(* The catalog's entries in a registry. *)

(* Where they are, and their ranks. *)
LEMMA MineFinite ==
  ASSUME NEW list \in Seq(Entries)
  PROVE  /\ mine(list) \subseteq 1..Len(list)
         /\ IsFiniteSet(mine(list))
         /\ Cardinality(mine(list)) \in Nat
         /\ \A i \in mine(list) :
              /\ IsFiniteSet({j \in mine(list) : j <= i})
              /\ rank(list, i) \in 1..Cardinality(mine(list))
  <1>1. mine(list) \subseteq 1..Len(list)
    BY DEF mine
  <1>2. IsFiniteSet(mine(list)) /\ Cardinality(mine(list)) \in Nat
    <2>1. IsFiniteSet(1..Len(list))
      BY FS_Interval
    <2>2. IsFiniteSet(mine(list))
      BY <1>1, <2>1, FS_Subset
    <2>. QED  BY <2>2, FS_CardinalityType
  <1>3. ASSUME NEW i \in mine(list)
        PROVE  /\ IsFiniteSet({j \in mine(list) : j <= i})
               /\ rank(list, i) \in 1..Cardinality(mine(list))
    <2>. DEFINE upTo == {j \in mine(list) : j <= i}
    <2>1. upTo \subseteq mine(list) /\ i \in upTo
      BY <1>1
    <2>2. IsFiniteSet(upTo) /\ Cardinality(upTo) <= Cardinality(mine(list))
      BY <2>1, <1>2, FS_Subset
    <2>3. Cardinality(upTo) \in Nat /\ Cardinality(upTo) # 0
      BY <2>1, <2>2, FS_CardinalityType, FS_EmptySet
    <2>. QED  BY <1>2, <2>2, <2>3 DEF rank
  <1>. QED  BY <1>1, <1>2, <1>3

(* No two of them have the same rank. *)
LEMMA RankIncreases ==
  ASSUME NEW list \in Seq(Entries),
         NEW i \in mine(list), NEW j \in mine(list), i < j
  PROVE  rank(list, i) < rank(list, j)
  <1>. DEFINE upToI == {l \in mine(list) : l <= i}
              upToJ == {l \in mine(list) : l <= j}
  <1>1. mine(list) \subseteq 1..Len(list) /\ Len(list) \in Nat
    BY MineFinite
  <1>2. upToI \subseteq upToJ /\ j \in upToJ /\ j \notin upToI
    BY <1>1
  <1>3. IsFiniteSet(upToJ) /\ IsFiniteSet(upToI)
    BY MineFinite
  <1>4. Cardinality(upToI) < Cardinality(upToJ)
    BY <1>2, <1>3, FS_Subset, FS_CardinalityType, SMTT(30)
  <1>. QED  BY <1>4 DEF rank

(* The entry of rank k is the k-th of the sequence. *)
LEMMA OursAt ==
  ASSUME NEW list \in Seq(Entries), NEW i \in mine(list)
  PROVE  /\ rank(list, i) \in 1..Len(oursOf(list))
         /\ oursOf(list)[rank(list, i)]
              = [name |-> list[i].name, magic |-> list[i].magic]
  <1>. DEFINE k == rank(list, i)
              chosen == CHOOSE j \in mine(list) : rank(list, j) = k
  <1>1. k \in 1..Cardinality(mine(list)) /\ Cardinality(mine(list)) \in Nat
    BY MineFinite
  <1>2. chosen \in mine(list) /\ rank(list, chosen) = k
    OBVIOUS
  <1>3. chosen = i
    <2>1. mine(list) \subseteq 1..Len(list)
      BY MineFinite
    <2>2. ~ (chosen < i) /\ ~ (i < chosen)
      BY <1>1, <1>2, RankIncreases
    <2>. QED  BY <1>2, <2>1, <2>2
  <1>4. oursOf(list)[k] = [name |-> list[chosen].name, magic |-> list[chosen].magic]
    BY <1>1 DEF oursOf
  <1>5. Len(oursOf(list)) = Cardinality(mine(list))
    BY <1>1 DEF oursOf
  <1>. QED  BY <1>1, <1>3, <1>4, <1>5

LEMMA OursType ==
  ASSUME NEW list \in Seq(Entries), Ranked(list)
  PROVE  oursOf(list) \in Seq(Catalogued)
  <1>1. ASSUME NEW k \in 1..Cardinality(mine(list))
        PROVE  oursOf(list)[k] \in Catalogued
    <2>1. PICK i \in mine(list) : rank(list, i) = k
      BY DEF Ranked
    <2>2. list[i] \in Entries
      BY MineFinite
    <2>3. oursOf(list)[k] = [name |-> list[i].name, magic |-> list[i].magic]
      BY <2>1, OursAt
    <2>. QED  BY <2>2, <2>3 DEF Catalogued, Entries
  <1>2. Cardinality(mine(list)) \in Nat
    BY MineFinite
  <1>3. oursOf(list) = [k \in 1..Cardinality(mine(list)) |-> oursOf(list)[k]]
    BY DEF oursOf
  <1>4. oursOf(list) \in [1..Cardinality(mine(list)) -> Catalogued]
    BY <1>1, <1>3
  <1>. QED  BY <1>2, <1>4

(* What another package registers does not move the catalog's entries. *)
LEMMA AppendRival ==
  ASSUME NEW list \in Seq(Entries), NEW e \in Entries, ~ e.ours, Ranked(list)
  PROVE  Ranked(Append(list, e)) /\ oursOf(Append(list, e)) = oursOf(list)
  <1>. DEFINE longer == Append(list, e)
  <1>0. longer \in Seq(Entries)
    OBVIOUS
  <1>1. mine(longer) = mine(list)
    BY DEF mine
  <1>2. \A i \in mine(list) : rank(longer, i) = rank(list, i)
    BY <1>1 DEF rank
  <1>3. Ranked(longer)
    BY <1>1, <1>2 DEF Ranked
  <1>4. \A i \in mine(list) : longer[i] = list[i]
    BY MineFinite
  <1>5. ASSUME NEW k \in 1..Cardinality(mine(list))
        PROVE  oursOf(longer)[k] = oursOf(list)[k]
    <2>1. PICK i \in mine(list) : rank(list, i) = k
      BY DEF Ranked
    <2>2. oursOf(list)[k] = [name |-> list[i].name, magic |-> list[i].magic]
      BY <2>1, OursAt
    <2>3. rank(longer, i) = k /\ i \in mine(longer)
      BY <1>1, <1>2, <2>1
    <2>4. oursOf(longer)[k] = [name |-> longer[i].name, magic |-> longer[i].magic]
      <3>. HIDE DEF longer
      <3>. QED  BY <1>0, <2>3, OursAt
    <2>. QED  BY <1>4, <2>2, <2>4
  <1>6. oursOf(longer) = oursOf(list)
    BY <1>1, <1>5 DEF oursOf
  <1>. QED  BY <1>3, <1>6

(* What the loop registers comes after them. *)
LEMMA AppendOurs ==
  ASSUME NEW list \in Seq(Entries), NEW e \in Entries, e.ours, Ranked(list)
  PROVE  /\ Ranked(Append(list, e))
         /\ oursOf(Append(list, e))
              = Append(oursOf(list), [name |-> e.name, magic |-> e.magic])
  <1>. DEFINE longer == Append(list, e)
              last   == Len(list) + 1
              n      == Cardinality(mine(list))
  <1>0. longer \in Seq(Entries) /\ Len(list) \in Nat
    OBVIOUS
  <1>1. mine(longer) = mine(list) \cup {last} /\ last \notin mine(list)
    BY DEF mine
  <1>2. n \in Nat /\ Cardinality(mine(longer)) = n + 1
    BY <1>1, MineFinite, FS_AddElement
  <1>3. \A i \in mine(list) : longer[i] = list[i] /\ i < last
    BY MineFinite
  <1>4. \A i \in mine(list) : rank(longer, i) = rank(list, i)
    <2>1. ASSUME NEW i \in mine(list)
          PROVE  {j \in mine(longer) : j <= i} = {j \in mine(list) : j <= i}
      BY <1>0, <1>1, <1>3, MineFinite
    <2>. QED  BY <2>1 DEF rank
  <1>5. rank(longer, last) = n + 1
    <2>1. {j \in mine(longer) : j <= last} = mine(longer)
      BY <1>0, <1>1, <1>3, MineFinite
    <2>. QED  BY <2>1, <1>2 DEF rank
  <1>6. Ranked(longer)
    BY <1>1, <1>2, <1>4, <1>5 DEF Ranked
  <1>7. Len(oursOf(list)) = n /\ Len(oursOf(longer)) = n + 1
    BY <1>2 DEF oursOf
  <1>8. ASSUME NEW k \in 1..n
        PROVE  oursOf(longer)[k] = oursOf(list)[k]
    <2>1. PICK i \in mine(list) : rank(list, i) = k
      BY DEF Ranked
    <2>2. oursOf(list)[k] = [name |-> list[i].name, magic |-> list[i].magic]
      BY <2>1, OursAt
    <2>3. rank(longer, i) = k /\ i \in mine(longer)
      BY <1>1, <1>4, <2>1
    <2>4. oursOf(longer)[k] = [name |-> longer[i].name, magic |-> longer[i].magic]
      <3>. HIDE DEF longer
      <3>. QED  BY <1>0, <2>3, OursAt
    <2>. QED  BY <1>3, <2>2, <2>4
  <1>9. oursOf(longer)[n + 1] = [name |-> e.name, magic |-> e.magic]
    <2>1. longer[last] = e
      OBVIOUS
    <2>. HIDE DEF longer, last, n
    <2>. QED  BY <2>1, <1>0, <1>1, <1>5, OursAt
  <1>10. oursOf(list) \in Seq(Catalogued) /\ oursOf(longer) \in Seq(Catalogued)
    BY <1>0, <1>6, OursType
  <1>. QED  BY <1>2, <1>6, <1>7, <1>8, <1>9, <1>10

----------------------------------------------------------------------------
(* The locals of a call. *)

LEMMA SeqElements ==
  ASSUME NEW S, NEW s \in Seq(S)
  PROVE  Len(s) \in Nat /\ DOMAIN s = 1..Len(s) /\ \A i \in DOMAIN s : s[i] \in S
  OBVIOUS

LEMMA SeqAppend ==
  ASSUME NEW S, NEW s \in Seq(S), NEW e \in S
  PROVE  Append(s, e) \in Seq(S)
  OBVIOUS

LEMMA CatalogTypes ==
  /\ Catalog \in Seq(Catalogued)
  /\ \A i \in DOMAIN Catalog : Catalog[i] \in Catalogued
  /\ Rivals \subseteq Catalogued
  <1>1. [name : Names, magic : Magics] \subseteq Catalogued
    BY DEF Catalogued, EntryNames
  <1>2. Catalog \in Seq([name : Names, magic : Magics])
    BY RegistrationAssumption
  <1>3. \A i \in DOMAIN Catalog : Catalog[i] \in Catalogued
    <2>1. \A i \in DOMAIN Catalog : Catalog[i] \in [name : Names, magic : Magics]
      BY <1>2, SeqElements, Zenon
    <2>. QED  BY <1>1, <2>1, Zenon
  <1>4. Catalog \in Seq(Catalogued)
    BY <1>2, <1>3
  <1>5. Rivals \subseteq Catalogued
    BY RegistrationAssumption DEF Catalogued
  <1>. QED  BY <1>3, <1>4, <1>5

(* What a call returns of a decode: an error, or a name, never both. *)
LEMMA AdaptedTypes ==
  ASSUME NEW op \in ImageOps \cup ReaderOps, NEW entry \in Entries \cup {noEntry},
         NEW found \in Formats \cup DecodeErrors
  PROVE  /\ adapted(op, entry, found).err \in Errors
         /\ adapted(op, entry, found).name \in EntryNames \cup {blank}
         /\ adapted(op, entry, found).err # "nil"
              => adapted(op, entry, found).name = blank
  <1>1. CASE found \notin Formats
    BY <1>1 DEF adapted, Errors, DecodeErrors
  <1>2. CASE found \in Formats /\ op \in ImageOps
    <2>1. entry.name \in EntryNames \cup {blank}
      BY DEF Entries, noEntry
    <2>2. op # "DecodeReader" /\ op # "DecodeConfigReader"
      BY <1>2 DEF ImageOps
    <2>. QED  BY <1>2, <2>1, <2>2 DEF adapted, Errors
  <1>3. CASE found \in Formats /\ op = "DecodeReader"
    BY <1>3 DEF adapted, Errors, ImageOps, EntryNames, Names
  <1>4. CASE found \in Formats /\ op = "DecodeConfigReader"
    BY <1>4 DEF adapted, Errors, ImageOps
  <1>. QED  BY <1>1, <1>2, <1>3, <1>4 DEF ReaderOps

(* A set of numbers has a smallest one. *)
LEMMA SmallestExists ==
  ASSUME NEW S \in SUBSET Nat, S # {}
  PROVE  \E i \in S : \A j \in S : i <= j
  <1>1. PICK i \in S : \A j \in S : ~ (<<j, i>> \in OpToRel(<, Nat))
    BY NatLessThanWellFounded, WFMin, Zenon
  <1>2. \A j \in S : ~ (j < i)
    BY <1>1 DEF OpToRel
  <1>. QED  BY <1>2

LEMMA MinSmallest ==
  ASSUME NEW S \in SUBSET Nat, S # {}
  PROVE  Min(S) \in S /\ \A j \in S : Min(S) <= j
  BY SmallestExists DEF Min

(* Where image.Decode finds its entry. *)
LEMMA RoutedFound ==
  ASSUME NEW list \in Seq(Entries), NEW src
  PROVE  /\ routed(list, src) \in 0..Len(list)
         /\ routed(list, src) # 0 => <<list[routed(list, src)].magic, src>> \in Matches
         /\ routed(list, src) = 0
              => \A i \in DOMAIN list : <<list[i].magic, src>> \notin Matches
  <1>. DEFINE matching == {i \in 1..Len(list) : <<list[i].magic, src>> \in Matches}
  <1>1. routed(list, src) = IF matching # {} THEN Min(matching) ELSE 0
    BY DEF routed, SelectInSeq
  <1>2. Len(list) \in Nat /\ \A i \in matching : i \in 1..Len(list)
    OBVIOUS
  <1>3. matching # {} => routed(list, src) \in matching
    <2>. HIDE DEF matching
    <2>1. matching \in SUBSET Nat
      BY <1>2
    <2>. QED  BY <1>1, <2>1, MinSmallest
  <1>4. routed(list, src) \in 0..Len(list)
    <2>. HIDE DEF matching
    <2>. QED  BY <1>1, <1>2, <1>3
  <1>5. ASSUME routed(list, src) # 0
        PROVE  <<list[routed(list, src)].magic, src>> \in Matches
    <2>1. matching # {}
      BY <1>1, <1>5
    <2>. QED  BY <1>3, <2>1
  <1>6. ASSUME routed(list, src) = 0, NEW i \in DOMAIN list
        PROVE  <<list[i].magic, src>> \notin Matches
    <2>1. i \notin matching
      <3>. HIDE DEF matching
      <3>. QED  BY <1>2, <1>3, <1>6
    <2>. QED  BY <2>1
  <1>. QED  BY <1>4, <1>5, <1>6

\* The locals that finish leaves.
ended(err, name) == [idle EXCEPT !.err = err, !.name = name]

LEMMA EndedTypes ==
  ASSUME NEW err \in Errors, NEW name \in EntryNames \cup {blank},
         err # "nil" => name = blank
  PROVE  ended(err, name) \in Locals /\ CallLocals(ended(err, name))
  BY DEF ended, idle, Locals, Pcs, CallLocals, Decoding

LEMMA InitTypes == Init => RegistryTypes
  <1>1. idle \in Locals /\ CallLocals(idle)
    BY DEF idle, Locals, Pcs, CallLocals, Decoding, Errors
  <1>2. Init => \A g \in Goroutines : at[g] \in Locals /\ CallLocals(at[g])
    BY <1>1 DEF Init
  <1>3. Init => at \in [Goroutines -> Locals]
    BY <1>1 DEF Init
  <1>4. Init => formats \in Seq(Entries)
    BY DEF Init
  <1>5. Init => onceDone \in BOOLEAN /\ onceMutex = nobody /\ served \subseteq Goroutines
    BY DEF Init
  <1>. QED  BY <1>2, <1>3, <1>4, <1>5 DEF RegistryTypes

(* A step of a goroutine leaves its locals in order. *)
LEMMA TypesProceed ==
  ASSUME RegistryTypes, NEW g \in Goroutines, Proceed(g)
  PROVE  at' \in [Goroutines -> Locals] /\ \A h \in Goroutines : CallLocals(at'[h])
  <1>. DEFINE call == at[g]
  <1>0. call \in Locals /\ CallLocals(call)
    BY DEF RegistryTypes
  <1>. SUFFICES \E r \in Locals : CallLocals(r) /\ at' = [at EXCEPT ![g] = r]
    BY DEF RegistryTypes
  <1>1. CASE OnceDo(g)
    <2>. DEFINE r == [call EXCEPT !.pc = IF onceDone THEN "idle" ELSE "lock"]
    <2>1. r \in Locals /\ CallLocals(r)
      BY <1>0, <1>1 DEF OnceDo, Locals, Pcs, CallLocals, Decoding
    <2>2. at' = [at EXCEPT ![g] = r]
      BY <1>1 DEF OnceDo, RegistryTypes
    <2>. QED  BY <2>1, <2>2
  <1>2. CASE OnceLock(g)
    <2>. DEFINE r == [call EXCEPT !.pc = IF onceDone THEN "unlock" ELSE "loop",
                                  !.next = 1]
    <2>1. call.pc = "lock"
      BY <1>2 DEF OnceLock
    <2>2. r \in Locals
      BY <1>0 DEF Locals, Pcs
    <2>3. /\ r.pc \in {"unlock", "loop"} /\ r.next = 1
          /\ r.err = call.err /\ r.name = call.name /\ r.op = call.op
      BY <1>0 DEF Locals
    <2>4. CallLocals(r)
      <3>. HIDE DEF r
      <3>. QED  BY <1>0, <2>1, <2>3 DEF CallLocals, Decoding
    <2>5. at' = [at EXCEPT ![g] = r]
      BY <1>2 DEF OnceLock, RegistryTypes
    <2>. QED  BY <2>2, <2>4, <2>5
  <1>3. CASE RegisterNext(g)
    <2>. DEFINE r == [call EXCEPT !.next = @ + 1]
    <2>1. r \in Locals /\ CallLocals(r)
      BY <1>0 DEF Locals, CallLocals, Decoding
    <2>2. at' = [at EXCEPT ![g] = r]
      BY <1>3 DEF RegisterNext, RegistryTypes
    <2>. QED  BY <2>1, <2>2
  <1>4. CASE OnceStore(g)
    <2>. DEFINE r == [call EXCEPT !.pc = "unlock"]
    <2>1. r \in Locals /\ CallLocals(r)
      BY <1>0, <1>4 DEF OnceStore, Locals, Pcs, CallLocals, Decoding
    <2>2. at' = [at EXCEPT ![g] = r]
      BY <1>4 DEF OnceStore, goto, RegistryTypes
    <2>. QED  BY <2>1, <2>2
  <1>5. CASE OnceUnlock(g)
    <2>1. idle \in Locals /\ CallLocals(idle)
      BY DEF idle, Locals, Pcs, CallLocals, Decoding, Errors
    <2>2. at' = [at EXCEPT ![g] = idle]
      BY <1>5 DEF OnceUnlock
    <2>. QED  BY <2>1, <2>2
  <1>6. ASSUME NEW err \in Errors, NEW name \in EntryNames \cup {blank},
               err # "nil" => name = blank, finish(g, err, name)
        PROVE  \E r \in Locals : CallLocals(r) /\ at' = [at EXCEPT ![g] = r]
    <2>1. ended(err, name) \in Locals /\ CallLocals(ended(err, name))
      BY <1>6, EndedTypes
    <2>2. at' = [at EXCEPT ![g] = ended(err, name)]
      BY <1>6 DEF finish, ended
    <2>. QED  BY <2>1, <2>2
  <1>7. "nil" \in Errors /\ "ErrFormat" \in Errors /\ "readError" \in Errors
    BY DEF Errors
  <1>8. CASE Sniff(g)
    <2>. DEFINE i == routed(formats, call.src)
    <2>1. CASE i = 0
      BY <1>6, <1>7, <1>8, <2>1 DEF Sniff
    <2>2. CASE i # 0
      <3>. DEFINE r == [call EXCEPT !.pc = IF formats[i].ours THEN "read" ELSE "rival",
                                    !.entry = formats[i]]
      <3>1. formats[i] \in Entries
        <4>1. formats \in Seq(Entries)
          BY DEF RegistryTypes
        <4>2. i \in 0..Len(formats)
          BY <4>1, RoutedFound
        <4>. HIDE DEF i
        <4>. QED  BY <2>2, <4>1, <4>2
      <3>2. call.pc = "sniff"
        BY <1>8 DEF Sniff
      <3>3. r \in Locals /\ CallLocals(r)
        BY <1>0, <3>1, <3>2 DEF Locals, Pcs, CallLocals, Decoding
      <3>4. at' = [at EXCEPT ![g] = r]
        BY <1>8, <2>2 DEF Sniff, RegistryTypes
      <3>. QED  BY <3>3, <3>4
    <2>. QED  BY <2>1, <2>2
  <1>9. CASE RivalDecodes(g)
    <2>1. call.entry.name \in EntryNames \cup {blank}
      BY <1>0 DEF Locals, Entries, noEntry
    <2>. QED  BY <1>6, <1>7, <1>9, <2>1 DEF RivalDecodes
  <1>10. CASE ReadAll(g)
    <2>1. CASE finish(g, "readError", blank)
      BY <1>6, <1>7, <2>1
    <2>2. CASE goto(g, "decode")
      <3>. DEFINE r == [call EXCEPT !.pc = "decode"]
      <3>1. r \in Locals /\ CallLocals(r)
        BY <1>0, <1>10 DEF ReadAll, Locals, Pcs, CallLocals, Decoding
      <3>2. at' = [at EXCEPT ![g] = r]
        BY <2>2 DEF goto, RegistryTypes
      <3>. QED  BY <3>1, <3>2
    <2>. QED  BY <1>10, <2>1, <2>2 DEF ReadAll
  <1>11. CASE Decode(g)
    <2>. DEFINE result == adapted(call.op, call.entry, Found[call.src])
    <2>1. /\ call.op \in ImageOps \cup ReaderOps
          /\ call.src \in Sources
          /\ call.entry \in Entries \cup {noEntry}
      BY <1>0, <1>11 DEF Decode, Locals, CallLocals, Decoding
    <2>2. Found[call.src] \in Formats \cup DecodeErrors
      BY <2>1, RegistrationAssumption
    <2>3. /\ result.err \in Errors /\ result.name \in EntryNames \cup {blank}
          /\ result.err # "nil" => result.name = blank
      BY <2>1, <2>2, AdaptedTypes
    <2>4. finish(g, result.err, result.name)
      BY <1>11 DEF Decode
    <2>. QED  BY <1>6, <2>3, <2>4
  <1>. QED  BY <1>1, <1>2, <1>3, <1>4, <1>5, <1>8, <1>9, <1>10, <1>11 DEF Proceed

(* No other goroutine's locals move. *)
LEMMA OthersStay ==
  ASSUME RegistryTypes, NEW g \in Goroutines, Proceed(g)
  PROVE  \A h \in Goroutines : h # g => at'[h] = at[h]
  BY DEF Proceed, OnceDo, OnceLock, RegisterNext, OnceStore, OnceUnlock, Sniff,
         RivalDecodes, ReadAll, Decode, goto, finish, RegistryTypes

LEMMA TypesStep == RegistryTypes /\ [Next]_vars => RegistryTypes'
  <1>. SUFFICES ASSUME RegistryTypes, [Next]_vars PROVE RegistryTypes'
    OBVIOUS
  <1>1. ASSUME NEW g \in Goroutines, Proceed(g)
        PROVE  RegistryTypes'
    <2>1. at' \in [Goroutines -> Locals] /\ \A h \in Goroutines : CallLocals(at'[h])
      BY <1>1, TypesProceed
    <2>2. formats' \in Seq(Entries)
      <3>1. CASE RegisterNext(g)
        <4>. DEFINE f == Catalog[at[g].next]
        <4>1. at[g].next \in DOMAIN Catalog
          <5>1. at[g].next \in Nat /\ at[g].next # 0
            BY <3>1 DEF RegisterNext, RegistryTypes, Locals, CallLocals
          <5>2. Len(Catalog) \in Nat /\ DOMAIN Catalog = 1..Len(Catalog)
            BY CatalogTypes, SeqElements
          <5>. QED  BY <3>1, <5>1, <5>2 DEF RegisterNext
        <4>2. entryOf(f, TRUE) \in Entries
          BY <4>1, CatalogTypes DEF Catalogued, entryOf, Entries
        <4>3. formats \in Seq(Entries) /\ formats' = Append(formats, entryOf(f, TRUE))
          BY <3>1 DEF RegisterNext, RegistryTypes
        <4>. HIDE DEF f
        <4>. QED  BY <4>2, <4>3, SeqAppend, Zenon
      <3>2. CASE ~ RegisterNext(g)
        BY <1>1, <3>2 DEF Proceed, OnceDo, OnceLock, OnceStore, OnceUnlock, Sniff,
           RivalDecodes, ReadAll, Decode, once, RegistryTypes
      <3>. QED  BY <3>1, <3>2
    <2>3. onceDone' \in BOOLEAN /\ onceMutex' \in Goroutines \cup {nobody}
      BY <1>1 DEF Proceed, OnceDo, OnceLock, RegisterNext, OnceStore, OnceUnlock,
         Sniff, RivalDecodes, ReadAll, Decode, once, RegistryTypes
    <2>4. served' \subseteq Goroutines
      BY <1>1 DEF Proceed, OnceDo, OnceLock, RegisterNext, OnceStore, OnceUnlock,
         Sniff, RivalDecodes, ReadAll, Decode, RegistryTypes
    <2>. QED  BY <2>1, <2>2, <2>3, <2>4 DEF RegistryTypes
  <1>2. ASSUME NEW g \in Goroutines, NEW r \in Locals, CallLocals(r),
               at' = [at EXCEPT ![g] = r], UNCHANGED <<once, served>>
        PROVE  RegistryTypes'
    <2>1. at' \in [Goroutines -> Locals] /\ \A h \in Goroutines : CallLocals(at'[h])
      BY <1>2 DEF RegistryTypes
    <2>. QED  BY <1>2, <2>1 DEF RegistryTypes, once
  <1>3. ASSUME NEW g \in Goroutines, CallRegisterFormats(g)
        PROVE  RegistryTypes'
    <2>. DEFINE r == [idle EXCEPT !.pc = "once"]
    <2>1. r \in Locals /\ CallLocals(r)
      BY DEF idle, Locals, Pcs, CallLocals, Decoding, Errors
    <2>2. at' = [at EXCEPT ![g] = r] /\ UNCHANGED <<once, served>>
      BY <1>3 DEF CallRegisterFormats
    <2>. HIDE DEF r
    <2>. QED  BY <1>2, <2>1, <2>2
  <1>4. ASSUME NEW g \in Goroutines, NEW op \in ImageOps \cup ReaderOps,
               NEW src \in Sources, CallDecode(g, op, src) \/ CallReader(g, op, src)
        PROVE  RegistryTypes'
    <2>1. \A pc \in {"sniff", "read"} :
            LET r == [idle EXCEPT !.pc = pc, !.op = op, !.src = src]
            IN  r \in Locals /\ CallLocals(r)
      BY DEF idle, Locals, Pcs, CallLocals, Decoding, Errors
    <2>2. \E pc \in {"sniff", "read"} :
            at' = [at EXCEPT ![g] = [idle EXCEPT !.pc = pc, !.op = op, !.src = src]]
      BY <1>4 DEF CallDecode, CallReader
    <2>3. UNCHANGED <<once, served>>
      BY <1>4 DEF CallDecode, CallReader
    <2>. QED  BY <1>2, <2>1, <2>2, <2>3
  <1>5. ASSUME NEW f \in Rivals, RegisterRival(f)
        PROVE  RegistryTypes'
    <2>1. entryOf(f, FALSE) \in Entries
      BY CatalogTypes DEF Catalogued, entryOf, Entries
    <2>2. formats' \in Seq(Entries)
      BY <1>5, <2>1, SeqAppend, Zenon DEF RegisterRival, RegistryTypes
    <2>. QED  BY <1>5, <2>2 DEF RegisterRival, RegistryTypes
  <1>6. CASE UNCHANGED vars
    BY <1>6 DEF vars, once, RegistryTypes
  <1>. QED  BY <1>1, <1>3, <1>4, <1>5, <1>6 DEF Next

----------------------------------------------------------------------------
(* The mutex. *)

\* A step of g that has no part in a call of RegisterFormats.
OutsideOnce(g) ==
  /\ UNCHANGED <<once, served>>
  /\ at[g].pc \notin {"once", "lock", "loop", "unlock"}
  /\ at'[g].pc \notin {"once", "lock", "loop", "unlock"}
  /\ \A h \in Goroutines : h # g => at'[h] = at[h]

LEMMA FinishOutside ==
  ASSUME RegistryTypes, NEW g \in Goroutines, NEW err, NEW name,
         finish(g, err, name)
  PROVE  at'[g] = ended(err, name) /\ at'[g].pc = "idle"
  BY DEF RegistryTypes, finish, ended, idle

LEMMA DecodingOutside ==
  ASSUME RegistryTypes, NEW g \in Goroutines,
         Sniff(g) \/ RivalDecodes(g) \/ ReadAll(g) \/ Decode(g)
  PROVE  OutsideOnce(g)
  <1>1. at[g] \in Locals /\ at \in [Goroutines -> Locals]
    BY DEF RegistryTypes
  <1>2. UNCHANGED <<once, served>>
    BY DEF Sniff, RivalDecodes, ReadAll, Decode
  <1>3. at[g].pc \in {"sniff", "rival", "read", "decode"}
    BY DEF Sniff, RivalDecodes, ReadAll, Decode
  <1>4. \A h \in Goroutines : h # g => at'[h] = at[h]
    BY OthersStay DEF Proceed
  <1>5. at'[g].pc \in {"idle", "read", "rival", "decode"}
    <2>1. CASE Sniff(g)
      <3>1. \/ finish(g, "ErrFormat", blank)
            \/ \E pc \in {"read", "rival"} : \E entry :
                 at' = [at EXCEPT ![g].pc = pc, ![g].entry = entry]
        BY <2>1 DEF Sniff
      <3>2. ASSUME NEW pc \in {"read", "rival"}, NEW entry,
                   at' = [at EXCEPT ![g].pc = pc, ![g].entry = entry]
            PROVE  at'[g].pc = pc
        BY <1>1, <3>2 DEF Locals
      <3>. QED  BY <3>1, <3>2, FinishOutside
    <2>2. CASE RivalDecodes(g)
      BY <2>2, FinishOutside DEF RivalDecodes
    <2>3. CASE ReadAll(g)
      <3>1. goto(g, "decode") => at'[g].pc = "decode"
        BY <1>1 DEF goto, Locals
      <3>. QED  BY <2>3, <3>1, FinishOutside DEF ReadAll
    <2>4. CASE Decode(g)
      BY <2>4, FinishOutside DEF Decode
    <2>. QED  BY <2>1, <2>2, <2>3, <2>4
  <1>. QED  BY <1>2, <1>3, <1>4, <1>5 DEF OutsideOnce

LEMMA CallsOutside ==
  ASSUME RegistryTypes, NEW g \in Goroutines, NEW op, NEW src,
         CallDecode(g, op, src) \/ CallReader(g, op, src)
  PROVE  OutsideOnce(g)
  BY DEF RegistryTypes, CallDecode, CallReader, OutsideOnce, idle

LEMMA CallInside ==
  ASSUME RegistryTypes, NEW g \in Goroutines, CallRegisterFormats(g)
  PROVE  /\ UNCHANGED <<once, served>>
         /\ at[g].pc = "idle" /\ at'[g].pc = "once"
         /\ \A h \in Goroutines : h # g => at'[h] = at[h]
  BY DEF RegistryTypes, CallRegisterFormats, idle

(* What the steps inside it do to the goroutine's place. *)
LEMMA InsideOnce ==
  ASSUME RegistryTypes, NEW g \in Goroutines
  PROVE  /\ OnceDo(g) => at'[g].pc = IF onceDone THEN "idle" ELSE "lock"
         /\ OnceLock(g) => /\ at'[g].pc = IF onceDone THEN "unlock" ELSE "loop"
                           /\ at'[g].next = 1
         /\ RegisterNext(g) => at'[g].pc = "loop" /\ at'[g].next = at[g].next + 1
         /\ OnceStore(g) => at'[g].pc = "unlock"
         /\ OnceUnlock(g) => at'[g].pc = "idle"
  <1>. USE DEF RegistryTypes, Locals
  <1>1. OnceDo(g) => at'[g].pc = IF onceDone THEN "idle" ELSE "lock"
    BY DEF OnceDo
  <1>2. OnceLock(g) => /\ at'[g].pc = IF onceDone THEN "unlock" ELSE "loop"
                       /\ at'[g].next = 1
    BY DEF OnceLock
  <1>3. RegisterNext(g) => at'[g].pc = "loop" /\ at'[g].next = at[g].next + 1
    BY DEF RegisterNext
  <1>4. OnceStore(g) => at'[g].pc = "unlock"
    BY DEF OnceStore, goto
  <1>5. OnceUnlock(g) => at'[g].pc = "idle"
    BY DEF OnceUnlock, idle
  <1>. QED  BY <1>1, <1>2, <1>3, <1>4, <1>5

LEMMA OneInLoopStep == RegistryTypes /\ OneInLoop /\ [Next]_vars => OneInLoop'
  <1>. SUFFICES ASSUME RegistryTypes, OneInLoop, [Next]_vars PROVE OneInLoop'
    OBVIOUS
  <1>0. onceMutex \in Goroutines \cup {nobody} /\ nobody \notin Goroutines
    BY RegistrationAssumption DEF RegistryTypes
  <1>1. ASSUME NEW g \in Goroutines, OnceDo(g)
        PROVE  OneInLoop'
    <2>1. at'[g].pc \in {"idle", "lock"} /\ at[g].pc = "once"
      BY <1>1, InsideOnce DEF OnceDo
    <2>2. /\ UNCHANGED <<onceDone, onceMutex>>
          /\ \A h \in Goroutines : h # g => at'[h] = at[h]
      BY <1>1, OthersStay DEF OnceDo, once, Proceed
    <2>. QED  BY <1>0, <2>1, <2>2 DEF OneInLoop
  <1>2. ASSUME NEW g \in Goroutines, OnceLock(g)
        PROVE  OneInLoop'
    <2>1. at'[g].pc = IF onceDone THEN "unlock" ELSE "loop"
      BY <1>2, InsideOnce
    <2>2. /\ onceMutex = nobody /\ onceMutex' = g /\ UNCHANGED onceDone
          /\ \A h \in Goroutines : h # g => at'[h] = at[h]
      BY <1>2, OthersStay DEF OnceLock, Proceed
    <2>. QED  BY <1>0, <2>1, <2>2 DEF OneInLoop
  <1>3. ASSUME NEW g \in Goroutines, RegisterNext(g)
        PROVE  OneInLoop'
    <2>1. at'[g].pc = "loop" /\ at[g].pc = "loop"
      BY <1>3, InsideOnce DEF RegisterNext
    <2>2. /\ UNCHANGED <<onceDone, onceMutex>>
          /\ \A h \in Goroutines : h # g => at'[h] = at[h]
      BY <1>3, OthersStay DEF RegisterNext, Proceed
    <2>. QED  BY <1>0, <2>1, <2>2 DEF OneInLoop
  <1>4. ASSUME NEW g \in Goroutines, OnceStore(g)
        PROVE  OneInLoop'
    <2>1. at'[g].pc = "unlock" /\ at[g].pc = "loop"
      BY <1>4, InsideOnce DEF OnceStore
    <2>2. /\ onceDone' = TRUE /\ UNCHANGED onceMutex
          /\ \A h \in Goroutines : h # g => at'[h] = at[h]
      BY <1>4, OthersStay DEF OnceStore, Proceed
    <2>. QED  BY <1>0, <2>1, <2>2 DEF OneInLoop
  <1>5. ASSUME NEW g \in Goroutines, OnceUnlock(g)
        PROVE  OneInLoop'
    <2>1. at'[g].pc = "idle" /\ at[g].pc = "unlock"
      BY <1>5, InsideOnce DEF OnceUnlock
    <2>2. /\ onceMutex' = nobody /\ UNCHANGED onceDone
          /\ \A h \in Goroutines : h # g => at'[h] = at[h]
      BY <1>5, OthersStay DEF OnceUnlock, Proceed
    <2>. QED  BY <1>0, <2>1, <2>2 DEF OneInLoop
  <1>6. ASSUME NEW g \in Goroutines, OutsideOnce(g)
        PROVE  OneInLoop'
    BY <1>0, <1>6 DEF OutsideOnce, once, OneInLoop
  <1>7. ASSUME NEW g \in Goroutines, CallRegisterFormats(g)
        PROVE  OneInLoop'
    BY <1>0, <1>7, CallInside DEF once, OneInLoop
  <1>8. ASSUME NEW f \in Rivals, RegisterRival(f)
        PROVE  OneInLoop'
    BY <1>8 DEF RegisterRival, OneInLoop
  <1>9. CASE UNCHANGED vars
    BY <1>9 DEF vars, once, OneInLoop
  <1>. QED
    BY <1>1, <1>2, <1>3, <1>4, <1>5, <1>6, <1>7, <1>8, <1>9, DecodingOutside,
       CallsOutside DEF Next, Proceed

----------------------------------------------------------------------------
(* The catalog enters the registry in its order. *)

LEMMA CatalogPrefixes ==
  ASSUME NEW S, NEW s \in Seq(S)
  PROVE  /\ SubSeq(s, 1, 0) = <<>>
         /\ SubSeq(s, 1, Len(s)) = s
         /\ \A n \in 1..Len(s) :
              Append(SubSeq(s, 1, n - 1), s[n]) = SubSeq(s, 1, n)
  OBVIOUS

LEMMA NoneOfOurs == Ranked(<<>>) /\ oursOf(<<>>) = <<>>
  <1>1. mine(<<>>) = {}
    BY DEF mine
  <1>2. Cardinality(mine(<<>>)) = 0
    BY <1>1, FS_EmptySet
  <1>. QED  BY <1>2 DEF Ranked, oursOf

(* One turn of the loop adds the next entry of the catalog. *)
LEMMA RegisterNextAppends ==
  ASSUME RegistryTypes, Ranked(formats), NEW g \in Goroutines, RegisterNext(g)
  PROVE  /\ at[g].next \in 1..Len(Catalog)
         /\ Ranked(formats')
         /\ oursOf(formats') = Append(oursOf(formats), Catalog[at[g].next])
  <1>. DEFINE f == Catalog[at[g].next]
              e == entryOf(f, TRUE)
  <1>1. at[g].next \in Nat /\ at[g].next # 0 /\ at[g].next <= Len(Catalog)
    BY DEF RegisterNext, RegistryTypes, Locals, CallLocals
  <1>2. at[g].next \in 1..Len(Catalog) /\ f \in Catalogued
    BY <1>1, CatalogTypes, SeqElements
  <1>3. e \in Entries /\ e.ours /\ [name |-> e.name, magic |-> e.magic] = f
    BY <1>2 DEF Catalogued, entryOf, Entries
  <1>4. formats \in Seq(Entries) /\ formats' = Append(formats, e)
    BY DEF RegisterNext, RegistryTypes
  <1>5. Ranked(formats') /\ oursOf(formats') = Append(oursOf(formats), f)
    <2>. HIDE DEF f, e
    <2>. QED  BY <1>3, <1>4, AppendOurs
  <1>. QED  BY <1>2, <1>5

(* What another package registers changes none of it. *)
LEMMA RivalKeepsOurs ==
  ASSUME RegistryTypes, Ranked(formats), NEW f \in Rivals, RegisterRival(f)
  PROVE  Ranked(formats') /\ oursOf(formats') = oursOf(formats)
  <1>1. entryOf(f, FALSE) \in Entries /\ ~ entryOf(f, FALSE).ours
    BY CatalogTypes DEF Catalogued, entryOf, Entries
  <1>2. formats \in Seq(Entries) /\ formats' = Append(formats, entryOf(f, FALSE))
    BY DEF RegisterRival, RegistryTypes
  <1>. QED  BY <1>1, <1>2, AppendRival

LEMMA CatalogStep ==
  RegistryTypes /\ OneInLoop /\ CatalogSoFar /\ [Next]_vars => CatalogSoFar'
  <1>. SUFFICES ASSUME RegistryTypes, OneInLoop, CatalogSoFar, [Next]_vars
                PROVE  CatalogSoFar'
    OBVIOUS
  <1>0. OneInLoop'
    BY OneInLoopStep
  <1>1. ASSUME NEW g \in Goroutines, OnceDo(g)
        PROVE  CatalogSoFar'
    <2>1. at'[g].pc \in {"idle", "lock"}
      BY <1>1, InsideOnce
    <2>2. /\ UNCHANGED once /\ (served' = served \/ onceDone)
          /\ \A h \in Goroutines : h # g => at'[h] = at[h]
      BY <1>1, OthersStay DEF OnceDo, Proceed
    <2>. QED  BY <2>1, <2>2 DEF CatalogSoFar, once
  <1>2. ASSUME NEW g \in Goroutines, OnceLock(g)
        PROVE  CatalogSoFar'
    <2>1. /\ at'[g].pc = IF onceDone THEN "unlock" ELSE "loop"
          /\ at'[g].next = 1
      BY <1>2, InsideOnce
    <2>2. /\ onceMutex = nobody /\ onceMutex' = g
          /\ UNCHANGED <<formats, onceDone, served>>
          /\ \A h \in Goroutines : h # g => at'[h] = at[h]
      BY <1>2, OthersStay DEF OnceLock, Proceed
    <2>3. at'[g].pc = "loop" => oursOf(formats) = SubSeq(Catalog, 1, 0)
      BY <2>1, <2>2, CatalogTypes, CatalogPrefixes DEF CatalogSoFar
    <2>4. 1 \in 1..(Len(Catalog) + 1) /\ 1 - 1 = 0
      BY CatalogTypes, SeqElements
    <2>5. g # nobody
      BY RegistrationAssumption
    <2>. QED  BY <2>1, <2>2, <2>3, <2>4, <2>5 DEF CatalogSoFar
  <1>3. ASSUME NEW g \in Goroutines, RegisterNext(g)
        PROVE  CatalogSoFar'
    <2>. DEFINE n == at[g].next
    <2>1. at[g].pc = "loop" /\ ~ onceDone /\ onceMutex = g
      BY <1>3 DEF RegisterNext, OneInLoop
    <2>2. /\ n \in 1..Len(Catalog)
          /\ Ranked(formats')
          /\ oursOf(formats') = Append(oursOf(formats), Catalog[n])
      BY <1>3, RegisterNextAppends DEF CatalogSoFar
    <2>3. oursOf(formats) = SubSeq(Catalog, 1, n - 1)
      BY <2>1 DEF CatalogSoFar
    <2>4. oursOf(formats') = SubSeq(Catalog, 1, n)
      BY <2>2, <2>3, CatalogTypes, CatalogPrefixes, SMTT(30)
    <2>5. at'[g].next = n + 1
      BY <1>3, InsideOnce
    <2>6. /\ at'[g].next \in 1..(Len(Catalog) + 1)
          /\ oursOf(formats') = SubSeq(Catalog, 1, at'[g].next - 1)
      <3>1. Len(Catalog) \in Nat
        BY CatalogTypes, SeqElements
      <3>2. at'[g].next \in 1..(Len(Catalog) + 1)
        BY <2>2, <2>5, <3>1
      <3>3. at'[g].next - 1 = n
        BY <2>2, <2>5
      <3>. QED  BY <2>4, <3>2, <3>3, Zenon
    <2>7. \A h \in Goroutines : h # g => at'[h].pc # "loop"
      BY <2>1, <1>3, OthersStay DEF OneInLoop, Proceed
    <2>8. UNCHANGED <<onceDone, onceMutex, served>> /\ g # nobody
      BY <1>3, RegistrationAssumption DEF RegisterNext
    <2>. QED  BY <2>1, <2>2, <2>6, <2>7, <2>8 DEF CatalogSoFar
  <1>4. ASSUME NEW g \in Goroutines, OnceStore(g)
        PROVE  CatalogSoFar'
    <2>1. /\ at[g].next \in 1..(Len(Catalog) + 1) /\ at[g].next > Len(Catalog)
          /\ oursOf(formats) = SubSeq(Catalog, 1, at[g].next - 1)
      BY <1>4 DEF OnceStore, CatalogSoFar
    <2>2. at[g].next - 1 = Len(Catalog)
      BY <2>1, CatalogTypes, SeqElements
    <2>3. oursOf(formats) = Catalog
      BY <2>1, <2>2, CatalogTypes, CatalogPrefixes
    <2>4. UNCHANGED <<formats, served>> /\ onceDone' = TRUE
      BY <1>4 DEF OnceStore
    <2>5. \A h \in Goroutines : at'[h].pc # "loop"
      BY <1>0, <2>4 DEF OneInLoop
    <2>. QED  BY <2>3, <2>4, <2>5 DEF CatalogSoFar
  <1>5. ASSUME NEW g \in Goroutines, OnceUnlock(g)
        PROVE  CatalogSoFar'
    <2>1. onceDone /\ UNCHANGED <<formats, onceDone>>
      BY <1>5 DEF OnceUnlock, OneInLoop
    <2>2. \A h \in Goroutines : at'[h].pc # "loop"
      BY <1>0, <2>1 DEF OneInLoop
    <2>. QED  BY <2>1, <2>2 DEF CatalogSoFar
  <1>6. ASSUME NEW g \in Goroutines, OutsideOnce(g)
        PROVE  CatalogSoFar'
    BY <1>6 DEF OutsideOnce, once, CatalogSoFar
  <1>7. ASSUME NEW g \in Goroutines, CallRegisterFormats(g)
        PROVE  CatalogSoFar'
    BY <1>7, CallInside DEF once, CatalogSoFar
  <1>8. ASSUME NEW f \in Rivals, RegisterRival(f)
        PROVE  CatalogSoFar'
    <2>1. Ranked(formats') /\ oursOf(formats') = oursOf(formats)
      BY <1>8, RivalKeepsOurs DEF CatalogSoFar
    <2>. QED  BY <1>8, <2>1 DEF RegisterRival, CatalogSoFar
  <1>9. CASE UNCHANGED vars
    BY <1>9 DEF vars, once, CatalogSoFar
  <1>. QED
    BY <1>1, <1>2, <1>3, <1>4, <1>5, <1>6, <1>7, <1>8, <1>9, DecodingOutside,
       CallsOutside DEF Next, Proceed

----------------------------------------------------------------------------
(* The adapter's entries are the catalog's. *)

LEMMA EntriesStep ==
  RegistryTypes /\ EntriesFromCatalog /\ [Next]_vars => EntriesFromCatalog'
  <1>. SUFFICES ASSUME RegistryTypes, EntriesFromCatalog, [Next]_vars
                PROVE  EntriesFromCatalog'
    OBVIOUS
  <1>. DEFINE listed(list) ==
                \A i \in DOMAIN list : list[i].ours => FromCatalog(list[i])
              chosen(call) ==
                call.entry.ours =>
                  FromCatalog(call.entry) /\ <<call.entry.magic, call.src>> \in Matches
  <1>1. formats \in Seq(Entries) /\ listed(formats) /\ \A g \in Goroutines : chosen(at[g])
    BY DEF RegistryTypes, EntriesFromCatalog
  <1>2. ASSUME NEW e \in Entries, e.ours => FromCatalog(e)
        PROVE  listed(Append(formats, e))
    <2>1. /\ DOMAIN Append(formats, e) = 1..(Len(formats) + 1)
          /\ Append(formats, e)[Len(formats) + 1] = e
          /\ Len(formats) \in Nat /\ DOMAIN formats = 1..Len(formats)
          /\ \A i \in 1..Len(formats) : Append(formats, e)[i] = formats[i]
      BY <1>1
    <2>. QED  BY <1>1, <1>2, <2>1
  <1>3. listed(formats')
    <2>1. ASSUME NEW g \in Goroutines, RegisterNext(g)
          PROVE  listed(formats')
      <3>. DEFINE f == Catalog[at[g].next]
      <3>1. at[g].next \in Nat /\ at[g].next # 0 /\ at[g].next <= Len(Catalog)
        BY <2>1 DEF RegisterNext, RegistryTypes, Locals, CallLocals
      <3>2. at[g].next \in DOMAIN Catalog /\ f \in Catalogued
        BY <3>1, CatalogTypes, SeqElements
      <3>3. entryOf(f, TRUE) \in Entries /\ FromCatalog(entryOf(f, TRUE))
        BY <3>2 DEF Catalogued, entryOf, Entries, FromCatalog
      <3>4. formats' = Append(formats, entryOf(f, TRUE))
        BY <2>1 DEF RegisterNext
      <3>. HIDE DEF listed, f
      <3>. QED  BY <1>2, <3>3, <3>4
    <2>2. ASSUME NEW f \in Rivals, RegisterRival(f)
          PROVE  listed(formats')
      <3>1. entryOf(f, FALSE) \in Entries /\ ~ entryOf(f, FALSE).ours
        BY CatalogTypes DEF Catalogued, entryOf, Entries
      <3>2. formats' = Append(formats, entryOf(f, FALSE))
        BY <2>2 DEF RegisterRival
      <3>. HIDE DEF listed
      <3>. QED  BY <1>2, <3>1, <3>2
    <2>3. ASSUME UNCHANGED formats
          PROVE  listed(formats')
      BY <1>1, <2>3
    <2>4. \/ UNCHANGED formats
          \/ \E g \in Goroutines : RegisterNext(g)
          \/ \E f \in Rivals : RegisterRival(f)
      <3>1. \A g \in Goroutines : OutsideOnce(g) => UNCHANGED formats
        BY DEF OutsideOnce, once
      <3>2. \A g \in Goroutines :
              OnceDo(g) \/ OnceLock(g) \/ OnceStore(g) \/ OnceUnlock(g)
                \/ CallRegisterFormats(g) => UNCHANGED formats
        BY DEF OnceDo, OnceLock, OnceStore, OnceUnlock, CallRegisterFormats, once
      <3>3. UNCHANGED vars => UNCHANGED formats
        BY DEF vars, once
      <3>. QED
        BY <3>1, <3>2, <3>3, DecodingOutside, CallsOutside, Zenon DEF Next, Proceed
    <2>. QED  BY <2>1, <2>2, <2>3, <2>4
  <1>4. ASSUME NEW h \in Goroutines
        PROVE  chosen(at'[h])
    <2>1. at[h] \in Locals /\ at \in [Goroutines -> Locals]
      BY DEF RegistryTypes
    <2>2. chosen(ended("nil", blank)) /\ \A err, name : chosen(ended(err, name))
      BY DEF ended, idle, noEntry
    <2>3. CASE at'[h] = at[h]
      BY <1>1, <2>3
    <2>4. CASE OnceDo(h) \/ OnceLock(h) \/ RegisterNext(h) \/ OnceStore(h)
      <3>. DEFINE kept == at'[h].entry = at[h].entry /\ at'[h].src = at[h].src
      <3>1. OnceDo(h) => kept
        BY <2>1 DEF OnceDo, Locals
      <3>2. OnceLock(h) => kept
        BY <2>1 DEF OnceLock, Locals
      <3>3. RegisterNext(h) => kept
        BY <2>1 DEF RegisterNext, Locals
      <3>4. OnceStore(h) => kept
        BY <2>1 DEF OnceStore, goto, Locals
      <3>5. kept
        BY <2>4, <3>1, <3>2, <3>3, <3>4
      <3>. QED  BY <1>1, <3>5
    <2>5. CASE OnceUnlock(h) \/ CallRegisterFormats(h)
      BY <2>1, <2>5 DEF OnceUnlock, CallRegisterFormats, idle, noEntry
    <2>6. CASE \E op, src : CallDecode(h, op, src) \/ CallReader(h, op, src)
      <3>1. PICK op, src : CallDecode(h, op, src) \/ CallReader(h, op, src)
        BY <2>6
      <3>. DEFINE begun(pc) == [idle EXCEPT !.pc = pc, !.op = op, !.src = src]
      <3>2. at'[h] = begun("sniff") \/ at'[h] = begun("read")
        BY <2>1, <3>1 DEF CallDecode, CallReader
      <3>3. ~ begun("sniff").entry.ours /\ ~ begun("read").entry.ours
        BY DEF idle, noEntry
      <3>. HIDE DEF begun
      <3>. QED  BY <3>2, <3>3
    <2>7. ASSUME NEW err, NEW name, finish(h, err, name)
          PROVE  chosen(at'[h])
      <3>1. at'[h] = ended(err, name)
        BY <2>7, FinishOutside
      <3>. HIDE DEF chosen
      <3>. QED  BY <2>2, <3>1
    <2>8. CASE RivalDecodes(h) \/ Decode(h)
      BY <2>7, <2>8 DEF RivalDecodes, Decode
    <2>9. CASE ReadAll(h)
      <3>1. CASE goto(h, "decode")
        <4>1. at'[h].entry = at[h].entry /\ at'[h].src = at[h].src
          BY <2>1, <3>1 DEF goto, Locals
        <4>. QED  BY <1>1, <4>1
      <3>. QED  BY <2>7, <2>9, <3>1 DEF ReadAll
    <2>10. CASE Sniff(h)
      <3>. DEFINE i == routed(formats, at[h].src)
      <3>1. CASE i = 0
        BY <2>7, <2>10, <3>1 DEF Sniff
      <3>2. CASE i # 0
        <4>1. at'[h].entry = formats[i] /\ at'[h].src = at[h].src
          BY <2>1, <2>10, <3>2 DEF Sniff, Locals
        <4>2. i \in DOMAIN formats /\ <<formats[i].magic, at[h].src>> \in Matches
          <5>1. i \in 0..Len(formats) /\ <<formats[i].magic, at[h].src>> \in Matches
            BY <1>1, <3>2, RoutedFound
          <5>2. Len(formats) \in Nat /\ DOMAIN formats = 1..Len(formats)
            BY <1>1
          <5>. HIDE DEF i
          <5>. QED  BY <3>2, <5>1, <5>2
        <4>. HIDE DEF i
        <4>. QED  BY <1>1, <4>1, <4>2
      <3>. QED  BY <3>1, <3>2
    <2>11. \/ at'[h] = at[h]
           \/ Proceed(h)
           \/ CallRegisterFormats(h)
           \/ \E op, src : CallDecode(h, op, src) \/ CallReader(h, op, src)
      <3>1. \A g \in Goroutines : Proceed(g) /\ h # g => at'[h] = at[h]
        BY OthersStay
      <3>2. \A g \in Goroutines : OutsideOnce(g) /\ h # g => at'[h] = at[h]
        BY DEF OutsideOnce
      <3>3. \A g \in Goroutines : CallRegisterFormats(g) /\ h # g => at'[h] = at[h]
        BY CallInside
      <3>4. \A f \in Rivals : RegisterRival(f) => at'[h] = at[h]
        BY DEF RegisterRival
      <3>5. UNCHANGED vars => at'[h] = at[h]
        BY DEF vars
      <3>. QED
        BY <3>1, <3>2, <3>3, <3>4, <3>5, CallsOutside, Zenon DEF Next
    <2>. HIDE DEF chosen
    <2>. QED
      BY <2>3, <2>4, <2>5, <2>6, <2>8, <2>9, <2>10, <2>11 DEF Proceed
  <1>. QED  BY <1>3, <1>4 DEF EntriesFromCatalog

----------------------------------------------------------------------------
(* The inductive invariant. *)

LEMMA InitInv == Init => IInv
  <1>. SUFFICES ASSUME Init PROVE IInv
    OBVIOUS
  <1>1. RegistryTypes
    BY InitTypes
  <1>2. \A g \in Goroutines : at[g].pc = "idle" /\ ~ at[g].entry.ours
    BY DEF Init, idle, noEntry
  <1>3. OneInLoop
    BY <1>2 DEF Init, OneInLoop
  <1>4. CatalogSoFar
    BY <1>2, NoneOfOurs DEF Init, CatalogSoFar
  <1>5. EntriesFromCatalog
    BY <1>2 DEF Init, EntriesFromCatalog
  <1>. QED  BY <1>1, <1>3, <1>4, <1>5 DEF IInv

(* The inductive invariant holds in every state: at most one goroutine is in the
   loop of RegisterFormats, what it has registered is a prefix of the catalog,
   and every entry of the adapter's is the catalog's. *)
THEOREM RegistrationInvariant == Spec => []IInv
  <1>1. IInv /\ [Next]_vars => IInv'
    BY TypesStep, OneInLoopStep, CatalogStep, EntriesStep DEF IInv
  <1>. QED  BY <1>1, InitInv, PTL DEF Spec

(* Every variable has its type, and a call that fails returns no name: the two
   readers of adapter.go and image.Decode give an error or a result, never part
   of each. *)
THEOREM RegistrationTypeCorrect == Spec => []TypeOK
  <1>1. IInv => TypeOK
    BY DEF IInv, RegistryTypes, Locals, CallLocals, TypeOK
  <1>. QED  BY <1>1, RegistrationInvariant, PTL

----------------------------------------------------------------------------
(* What image.Decode answers. *)

LEMMA SupportedStep ==
  ASSUME IInv, [Next]_vars, NEW g \in Goroutines, served # {}, at[g].pc = "sniff",
         NEW k \in DOMAIN Catalog, <<Catalog[k].magic, at[g].src>> \in Matches
  PROVE  at'[g].err # "ErrFormat"
  <1>1. oursOf(formats) = Catalog /\ Ranked(formats) /\ formats \in Seq(Entries)
    BY DEF IInv, CatalogSoFar, RegistryTypes
  <1>2. PICK i \in mine(formats) : formats[i].magic = Catalog[k].magic
    <2>1. k \in 1..Cardinality(mine(formats))
      BY <1>1, MineFinite DEF oursOf
    <2>2. PICK i \in mine(formats) : rank(formats, i) = k
      BY <1>1, <2>1 DEF Ranked
    <2>3. Catalog[k] = [name |-> formats[i].name, magic |-> formats[i].magic]
      BY <1>1, <2>2, OursAt
    <2>. QED  BY <2>3
  <1>3. routed(formats, at[g].src) # 0
    <2>1. i \in DOMAIN formats
      BY <1>2 DEF mine
    <2>2. <<formats[i].magic, at[g].src>> \in Matches
      BY <1>2
    <2>. QED  BY <1>1, <2>1, <2>2, RoutedFound, ZenonT(30)
  <1>4. at[g] \in Locals /\ at \in [Goroutines -> Locals] /\ at[g].err = "nil"
    BY DEF IInv, RegistryTypes, CallLocals
  <1>5. CASE at'[g] = at[g]
    BY <1>4, <1>5
  <1>6. CASE Sniff(g)
    BY <1>3, <1>4, <1>6 DEF Sniff, Locals
  <1>7. at'[g] = at[g] \/ Sniff(g)
    <2>1. \A h \in Goroutines : Proceed(h) /\ h # g => at'[g] = at[g]
      BY OthersStay DEF IInv
    <2>2. Proceed(g) => Sniff(g)
      BY DEF Proceed, OnceDo, OnceLock, RegisterNext, OnceStore, OnceUnlock,
         RivalDecodes, ReadAll, Decode
    <2>3. \A h \in Goroutines : CallRegisterFormats(h) => at'[g] = at[g]
      BY CallInside DEF IInv
    <2>4. \A h \in Goroutines : \A op, src :
            CallDecode(h, op, src) \/ CallReader(h, op, src) => at'[g] = at[g]
      <3>1. \A op, src : ~ CallDecode(g, op, src) /\ ~ CallReader(g, op, src)
        BY DEF CallDecode, CallReader
      <3>2. RegistryTypes
        BY DEF IInv
      <3>. QED  BY <3>1, <3>2, CallsOutside DEF OutsideOnce
    <2>5. \A f \in Rivals : RegisterRival(f) => at'[g] = at[g]
      BY DEF RegisterRival
    <2>6. UNCHANGED vars => at'[g] = at[g]
      BY DEF vars
    <2>. QED  BY <2>1, <2>2, <2>3, <2>4, <2>5, <2>6, Zenon DEF Next
  <1>. QED  BY <1>5, <1>6, <1>7

(* Once RegisterFormats has returned to any goroutine, image.Decode and
   image.DecodeConfig never again answer ErrFormat to a source the catalog has a
   magic for. *)
THEOREM SupportedWhenRegistered == Spec => SupportedOnceRegistered
  <1>1. IInv /\ [Next]_vars =>
          [ \A g \in Goroutines :
              /\ served # {}
              /\ at[g].pc = "sniff"
              /\ \E i \in DOMAIN Catalog : <<Catalog[i].magic, at[g].src>> \in Matches
              => at'[g].err # "ErrFormat" ]_vars
    BY SupportedStep
  <1>. QED
    BY <1>1, RegistrationInvariant, PTL DEF Spec, SupportedOnceRegistered

LEMMA NamesStep ==
  ASSUME IInv, [Next]_vars, NEW g \in Goroutines,
         at[g].op = "Decode", at[g].entry.ours,
         at'[g].pc = "idle", at'[g].err = "nil"
  PROVE  at'[g].name = adapted("DecodeReader", noEntry, Found[at[g].src]).name
  <1>. DEFINE call == at[g]
  <1>1. /\ call \in Locals /\ at \in [Goroutines -> Locals] /\ CallLocals(call)
        /\ RegistryTypes
    BY DEF IInv, RegistryTypes
  <1>2. blank # "Decode"
    BY Zenon DEF blank
  <1>3. Decoding(call) /\ call.src \in Sources
    BY <1>1, <1>2 DEF CallLocals
  <1>4. Proceed(g)
    <2>1. at'[g] # at[g]
      BY <1>3 DEF Decoding
    <2>2. \A h \in Goroutines : Proceed(h) => h = g
      BY <1>1, <2>1, OthersStay
    <2>3. \A h \in Goroutines : ~ CallRegisterFormats(h)
      BY <1>1, <1>3, <2>1, CallInside DEF Decoding
    <2>4. \A h \in Goroutines : \A op, src :
            ~ CallDecode(h, op, src) /\ ~ CallReader(h, op, src)
      <3>1. \A op, src : ~ CallDecode(g, op, src) /\ ~ CallReader(g, op, src)
        BY <1>3 DEF CallDecode, CallReader, Decoding
      <3>. QED  BY <1>1, <2>1, <3>1, CallsOutside DEF OutsideOnce
    <2>5. \A f \in Rivals : ~ RegisterRival(f)
      BY <2>1 DEF RegisterRival
    <2>6. ~ UNCHANGED vars
      BY <2>1 DEF vars
    <2>. QED  BY <2>2, <2>3, <2>4, <2>5, <2>6, Zenon DEF Next
  <1>5. ASSUME NEW err, NEW name, finish(g, err, name)
        PROVE  err = "nil" /\ at'[g].name = name
    <2>1. ended(err, name).err = err /\ ended(err, name).name = name
      BY DEF ended, idle
    <2>. QED  BY <1>1, <1>5, <2>1, FinishOutside
  <1>6. Decode(g)
    <2>1. ~ (OnceDo(g) \/ OnceLock(g) \/ RegisterNext(g) \/ OnceStore(g) \/ OnceUnlock(g))
      BY <1>3 DEF Decoding, OnceDo, OnceLock, RegisterNext, OnceStore, OnceUnlock
    <2>2. ~ Sniff(g)
      <3>1. ~ finish(g, "ErrFormat", blank)
        BY <1>5
      <3>. QED  BY <1>1, <3>1 DEF Sniff, Locals
    <2>3. ~ RivalDecodes(g)
      BY <1>1 DEF RivalDecodes, CallLocals
    <2>4. ~ ReadAll(g)
      <3>1. ~ finish(g, "readError", blank)
        BY <1>5
      <3>2. ~ goto(g, "decode")
        BY <1>1 DEF goto, Locals
      <3>. QED  BY <3>1, <3>2 DEF ReadAll
    <2>. QED  BY <1>4, <2>1, <2>2, <2>3, <2>4 DEF Proceed
  <1>. DEFINE found  == Found[call.src]
              result == adapted("Decode", call.entry, found)
  <1>7. result.err = "nil" /\ at'[g].name = result.name
    <2>1. finish(g, result.err, result.name)
      BY <1>6 DEF Decode
    <2>. HIDE DEF result
    <2>. QED  BY <1>5, <2>1
  <1>8. found \in Formats
    <2>1. found \in Formats \cup DecodeErrors
      BY <1>3, RegistrationAssumption
    <2>2. "nil" \notin DecodeErrors
      BY DEF DecodeErrors
    <2>. QED  BY <1>7, <2>1, <2>2 DEF adapted
  <1>9. result.name = call.entry.name
    BY <1>8 DEF adapted, ImageOps
  <1>10. PICK k \in DOMAIN Catalog :
           call.entry.name = Catalog[k].name /\ call.entry.magic = Catalog[k].magic
    BY DEF IInv, EntriesFromCatalog, FromCatalog
  <1>11. <<Catalog[k].magic, call.src>> \in Matches
    BY <1>10 DEF IInv, EntriesFromCatalog
  <1>12. formatName[found] = Catalog[k].name
    BY <1>3, <1>8, <1>11, RegistrationAssumption
  <1>13. adapted("DecodeReader", noEntry, found).name = formatName[found]
    BY <1>8 DEF adapted, ImageOps
  <1>. QED  BY <1>7, <1>9, <1>10, <1>12, <1>13

(* The name image.Decode gives for a source that one of the catalog's entries was
   chosen for is the one DecodeReader gives the same source. *)
THEOREM NamesOfBothReaders == Spec => NamesAgree
  <1>1. IInv /\ [Next]_vars =>
          [ \A g \in Goroutines :
              /\ at[g].op = "Decode" /\ at[g].entry.ours
              /\ at'[g].pc = "idle" /\ at'[g].err = "nil"
              => at'[g].name
                   = adapted("DecodeReader", noEntry, Found[at[g].src]).name ]_vars
    BY NamesStep
  <1>. QED  BY <1>1, RegistrationInvariant, PTL DEF Spec, NamesAgree

----------------------------------------------------------------------------
(* The registry's contract. *)

callers ==
  {g \in Goroutines : at[g].pc \in {"once", "lock", "loop", "unlock"}}

LEMMA ContractStep == IInv /\ [Next]_vars => [Contract!Next]_(Contract!vars)
  <1>. SUFFICES ASSUME IInv, [Next]_vars PROVE [Contract!Next]_(Contract!vars)
    OBVIOUS
  <1>. USE DEF callers
  <1>0. RegistryTypes /\ OneInLoop /\ CatalogSoFar
    BY DEF IInv
  <1>1. ASSUME NEW g \in Goroutines, OnceDo(g)
        PROVE  [Contract!Next]_(Contract!vars)
    <2>1. at[g].pc = "once" /\ UNCHANGED formats
      BY <1>1 DEF OnceDo, once
    <2>2. \A h \in Goroutines : h # g => at'[h] = at[h]
      BY <1>0, <1>1, OthersStay DEF Proceed
    <2>3. CASE onceDone
      <3>1. at'[g].pc = "idle"
        BY <1>0, <1>1, <2>3, InsideOnce
      <3>2. callers' = callers \ {g} /\ g \in callers
        BY <2>1, <2>2, <3>1
      <3>3. oursOf(formats) = Catalog
        BY <1>0, <2>3 DEF CatalogSoFar
      <3>. QED  BY <2>1, <3>2, <3>3 DEF Contract!Next, Contract!Return
    <2>4. CASE ~ onceDone
      <3>1. at'[g].pc = "lock"
        BY <1>0, <1>1, <2>4, InsideOnce
      <3>2. callers' = callers
        BY <2>1, <2>2, <3>1
      <3>. QED  BY <2>1, <3>2 DEF Contract!vars
    <2>. QED  BY <2>3, <2>4
  <1>2. ASSUME NEW g \in Goroutines, OnceLock(g) \/ OnceStore(g)
        PROVE  [Contract!Next]_(Contract!vars)
    <2>1. at[g].pc \in {"lock", "loop"} /\ UNCHANGED formats
      BY <1>2 DEF OnceLock, OnceStore
    <2>2. at'[g].pc \in {"loop", "unlock"}
      BY <1>0, <1>2, InsideOnce
    <2>3. \A h \in Goroutines : h # g => at'[h] = at[h]
      BY <1>0, <1>2, OthersStay DEF Proceed
    <2>4. callers' = callers
      BY <2>1, <2>2, <2>3
    <2>. QED  BY <2>1, <2>4 DEF Contract!vars
  <1>3. ASSUME NEW g \in Goroutines, RegisterNext(g)
        PROVE  [Contract!Next]_(Contract!vars)
    <2>. DEFINE n == at[g].next
    <2>1. at[g].pc = "loop" /\ at'[g].pc = "loop"
      BY <1>0, <1>3, InsideOnce DEF RegisterNext
    <2>2. \A h \in Goroutines : h # g => at'[h] = at[h]
      BY <1>0, <1>3, OthersStay DEF Proceed
    <2>3. callers' = callers /\ g \in callers
      BY <2>1, <2>2
    <2>4. /\ n \in 1..Len(Catalog)
          /\ oursOf(formats') = Append(oursOf(formats), Catalog[n])
      BY <1>0, <1>3, RegisterNextAppends DEF CatalogSoFar
    <2>5. Len(oursOf(formats)) = n - 1
      <3>1. oursOf(formats) = SubSeq(Catalog, 1, n - 1)
        BY <1>0, <2>1 DEF CatalogSoFar
      <3>2. Catalog \in Seq(Catalogued) /\ Len(Catalog) \in Nat
        BY CatalogTypes, SeqElements
      <3>. HIDE DEF n
      <3>. QED  BY <2>4, <3>1, <3>2
    <2>6. Len(oursOf(formats)) < Len(Catalog) /\ Len(oursOf(formats)) + 1 = n
      <3>1. Len(Catalog) \in Nat
        BY CatalogTypes, SeqElements
      <3>. HIDE DEF n
      <3>. QED  BY <2>4, <2>5, <3>1
    <2>. HIDE DEF n
    <2>. QED  BY <2>3, <2>4, <2>6 DEF Contract!Next, Contract!Submit
  <1>4. ASSUME NEW g \in Goroutines, OnceUnlock(g)
        PROVE  [Contract!Next]_(Contract!vars)
    <2>1. at[g].pc = "unlock" /\ at'[g].pc = "idle" /\ UNCHANGED formats
      BY <1>0, <1>4, InsideOnce DEF OnceUnlock
    <2>2. \A h \in Goroutines : h # g => at'[h] = at[h]
      BY <1>0, <1>4, OthersStay DEF Proceed
    <2>3. callers' = callers \ {g} /\ g \in callers
      BY <2>1, <2>2
    <2>4. oursOf(formats) = Catalog
      BY <1>0, <2>1 DEF OneInLoop, CatalogSoFar
    <2>. QED  BY <2>1, <2>3, <2>4 DEF Contract!Next, Contract!Return
  <1>5. ASSUME NEW g \in Goroutines, OutsideOnce(g)
        PROVE  [Contract!Next]_(Contract!vars)
    <2>1. callers' = callers
      BY <1>5 DEF OutsideOnce
    <2>. QED  BY <1>5, <2>1 DEF OutsideOnce, once, Contract!vars
  <1>6. ASSUME NEW g \in Goroutines, CallRegisterFormats(g)
        PROVE  [Contract!Next]_(Contract!vars)
    <2>1. /\ UNCHANGED formats /\ at[g].pc = "idle" /\ at'[g].pc = "once"
          /\ \A h \in Goroutines : h # g => at'[h] = at[h]
      BY <1>0, <1>6, CallInside DEF once
    <2>2. callers' = callers \cup {g} /\ g \notin callers
      BY <2>1
    <2>. QED  BY <2>1, <2>2 DEF Contract!Next, Contract!Call
  <1>7. ASSUME NEW f \in Rivals, RegisterRival(f)
        PROVE  [Contract!Next]_(Contract!vars)
    <2>1. oursOf(formats') = oursOf(formats)
      BY <1>0, <1>7, RivalKeepsOurs DEF CatalogSoFar
    <2>2. callers' = callers
      BY <1>7 DEF RegisterRival
    <2>. QED  BY <2>1, <2>2 DEF Contract!vars
  <1>8. CASE UNCHANGED vars
    BY <1>8 DEF vars, once, Contract!vars
  <1>. QED
    BY <1>0, <1>1, <1>2, <1>3, <1>4, <1>5, <1>6, <1>7, <1>8, DecodingOutside,
       CallsOutside DEF Next, Proceed

(* However calls of RegisterFormats race each other and other packages'
   registrations, the catalog enters the registry once and in its order, and no
   call returns before it is complete. *)
THEOREM RegistrationImplementsContract ==
  Spec => Contract!Init /\ [][Contract!Next]_(Contract!vars)
  <1>1. Init => Contract!Init
    BY NoneOfOurs DEF Init, idle, Contract!Init
  <1>. QED  BY <1>1, ContractStep, RegistrationInvariant, PTL DEF Spec

=============================================================================

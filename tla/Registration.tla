------------------------------ MODULE Registration ------------------------------
(***************************************************************************)
(* Goroutines that call RegisterFormats (registration.go), the readers of     *)
(* adapter.go, and image.Decode and image.DecodeConfig, which reach those       *)
(* readers through the image package's registry, while other packages register  *)
(* formats of their own.  sync.Once and the image package are external: each    *)
(* atomic operation of theirs is a step.                                         *)
(***************************************************************************)
EXTENDS Codecs, Naturals, SequencesExt

CONSTANTS
  Goroutines,
  Catalog,       \* registeredFormats: a sequence of [name, magic]
  Rivals,        \* what other packages register: a set of [name, magic]
  Sources,       \* the streams readers hand out
  Matches,       \* the pairs <<magic, source>> that the image package matches
  Found,         \* [Sources -> Formats \cup DecodeErrors]: what Decode makes of one
  nobody

VARIABLES
  formats,       \* image.formats: a sequence of [name, magic, ours]
  onceDone,      \* sync.Once.done
  onceMutex,     \* the goroutine that holds sync.Once.m, or nobody
  at,            \* where each goroutine is, and the locals of its call
  served         \* history: those RegisterFormats has returned to

once == <<formats, onceDone, onceMutex>>
vars == <<once, at, served>>

DecodeErrors == {"ErrUnknownFormat", "ErrDecode", "ErrBadImage"}
Errors       == DecodeErrors \cup {"nil", "ErrFormat", "readError"}

\* The image package's two functions, and the adapter's own.
ImageOps  == {"Decode", "DecodeConfig"}
ReaderOps == {"DecodeReader", "DecodeConfigReader"}

formatName ==
  [ ETC2 |-> "etc2", HNSM |-> "hnsm", NIE |-> "nie", PNG |-> "png", WEBP |-> "webp",
    BMP |-> "bmp", GIF |-> "gif", JPEG |-> "jpeg", NPBM |-> "npbm", QOI |-> "qoi",
    TGA |-> "tga", TH |-> "th", WBMP |-> "wbmp" ]

Names == {formatName[f] : f \in Formats}

\* The names and magics that packages register.
EntryNames == Names \cup {f.name : f \in Rivals}
Magics     == {Catalog[i].magic : i \in DOMAIN Catalog} \cup {f.magic : f \in Rivals}
Entries    == [name : EntryNames, magic : Magics, ours : BOOLEAN]

blank   == ""
noEntry == [name |-> blank, magic |-> blank, ours |-> FALSE]

entryOf(f, isOurs) == [name |-> f.name, magic |-> f.magic, ours |-> isOurs]

ASSUME RegistrationAssumption ==
  /\ nobody \notin Goroutines
  /\ Catalog \in Seq([name : Names, magic : Magics])
  /\ Rivals \subseteq [name : EntryNames, magic : Magics]
  /\ Found \in [Sources -> Formats \cup DecodeErrors]
  \* No magic of the catalog is that of a source the guest takes for another format.
  /\ \A src \in Sources, i \in DOMAIN Catalog :
       <<Catalog[i].magic, src>> \in Matches /\ Found[src] \in Formats
         => formatName[Found[src]] = Catalog[i].name

----------------------------------------------------------------------------
(* Goroutines.  One that is "idle" has in err and name what its last call     *)
(* returned.                                                                   *)

idle == [ pc |-> "idle", next |-> 0, op |-> blank, src |-> blank,
          entry |-> noEntry, err |-> "nil", name |-> blank ]

goto(g, pc) == at' = [at EXCEPT ![g].pc = pc]

finish(g, err, name) ==
  at' = [at EXCEPT ![g] = [idle EXCEPT !.err = err, !.name = name]]

Init ==
  /\ formats = <<>>
  /\ onceDone = FALSE
  /\ onceMutex = nobody
  /\ at = [g \in Goroutines |-> idle]
  /\ served = {}

----------------------------------------------------------------------------
(* RegisterFormats: sync.Once.Do around the loop over the catalog. *)

\* MUTANT of CallRegisterFormats: the loop without registerOnce.
RegisterUnguarded(g) ==
  /\ at[g].pc = "idle"
  /\ at' = [at EXCEPT ![g] = [idle EXCEPT !.pc = "loop", !.next = 1]]
  /\ UNCHANGED <<once, served>>

\* MUTANT of CallRegisterFormats: a call that finds another one begun returns.
RegisterIfUnbegun(g) ==
  LET begun == \E i \in DOMAIN formats : formats[i].ours
  IN  /\ at[g].pc = "idle"
      /\ at' = [at EXCEPT ![g] = [idle EXCEPT !.pc = IF begun THEN "idle" ELSE "once"]]
      /\ served' = IF begun THEN served \cup {g} ELSE served
      /\ UNCHANGED once

CallRegisterFormats(g) ==
  /\ at[g].pc = "idle"
  /\ at' = [at EXCEPT ![g] = [idle EXCEPT !.pc = "once"]]
  /\ UNCHANGED <<once, served>>

\* The load of done without the mutex.
OnceDo(g) ==
  /\ at[g].pc = "once"
  /\ at' = [at EXCEPT ![g].pc = IF onceDone THEN "idle" ELSE "lock"]
  /\ served' = IF onceDone THEN served \cup {g} ELSE served
  /\ UNCHANGED once

OnceLock(g) ==
  /\ at[g].pc = "lock"
  /\ onceMutex = nobody
  /\ onceMutex' = g
  /\ at' = [at EXCEPT ![g].pc = IF onceDone THEN "unlock" ELSE "loop", ![g].next = 1]
  /\ UNCHANGED <<formats, onceDone, served>>

\* MUTANT of RegisterNext: every entry under the name of the last.
RegisterLastName(g) ==
  /\ at[g].pc = "loop"
  /\ at[g].next <= Len(Catalog)
  /\ formats' = Append(formats, entryOf([name  |-> Last(Catalog).name,
                                         magic |-> Catalog[at[g].next].magic], TRUE))
  /\ at' = [at EXCEPT ![g].next = @ + 1]
  /\ UNCHANGED <<onceDone, onceMutex, served>>

\* One turn of the loop: registerWith, which is image.RegisterFormat.
RegisterNext(g) ==
  /\ at[g].pc = "loop"
  /\ at[g].next <= Len(Catalog)
  /\ formats' = Append(formats, entryOf(Catalog[at[g].next], TRUE))
  /\ at' = [at EXCEPT ![g].next = @ + 1]
  /\ UNCHANGED <<onceDone, onceMutex, served>>

\* The deferred store of done, once the loop has ended.
OnceStore(g) ==
  /\ at[g].pc = "loop"
  /\ at[g].next > Len(Catalog)
  /\ onceDone' = TRUE
  /\ goto(g, "unlock")
  /\ UNCHANGED <<formats, onceMutex, served>>

OnceUnlock(g) ==
  /\ at[g].pc = "unlock"
  /\ onceMutex' = nobody
  /\ at' = [at EXCEPT ![g] = idle]
  /\ served' = served \cup {g}
  /\ UNCHANGED <<formats, onceDone>>

\* Another package's image.RegisterFormat, from the same or another goroutine.
RegisterRival(f) ==
  /\ ~ Contains(formats, entryOf(f, FALSE))
  /\ formats' = Append(formats, entryOf(f, FALSE))
  /\ UNCHANGED <<onceDone, onceMutex, at, served>>

----------------------------------------------------------------------------
(* image.Decode and image.DecodeConfig. *)

\* Where the first of the registered formats that matches a source is, or 0.
routed(list, src) == SelectInSeq(list, LAMBDA f : <<f.magic, src>> \in Matches)

CallDecode(g, op, src) ==
  /\ at[g].pc = "idle"
  /\ at' = [at EXCEPT ![g] = [idle EXCEPT !.pc = "sniff", !.op = op, !.src = src]]
  /\ UNCHANGED <<once, served>>

\* The list is loaded once; what is registered later is not looked at.  The readers
\* here have their first bytes to peek at: one that fails does so in ReadAll.
Sniff(g) ==
  /\ at[g].pc = "sniff"
  /\ LET i == routed(formats, at[g].src)
     IN  IF i = 0 THEN finish(g, "ErrFormat", blank)
         ELSE at' = [at EXCEPT ![g].pc = IF formats[i].ours THEN "read" ELSE "rival",
                               ![g].entry = formats[i]]
  /\ UNCHANGED <<once, served>>

\* Another package decodes.
RivalDecodes(g) ==
  /\ at[g].pc = "rival"
  /\ \/ finish(g, "nil", at[g].entry.name)
     \/ finish(g, "readError", blank)
  /\ UNCHANGED <<once, served>>

----------------------------------------------------------------------------
(* decodeReaderWithDecoder and decodeConfigReaderWithDecoder, called directly *)
(* or by the image package.                                                     *)

CallReader(g, op, src) ==
  /\ at[g].pc = "idle"
  /\ at' = [at EXCEPT ![g] = [idle EXCEPT !.pc = "read", !.op = op, !.src = src]]
  /\ UNCHANGED <<once, served>>

\* io.ReadAll
ReadAll(g) ==
  /\ at[g].pc = "read"
  /\ \/ goto(g, "decode")
     \/ finish(g, "readError", blank)
  /\ UNCHANGED <<once, served>>

\* MUTANT of adapted: a failed decode returns with a name.
adaptedAnyway(op, entry, found) ==
  IF found \in Formats THEN [err |-> "nil", name |-> entry.name]
  ELSE [err |-> found, name |-> entry.name]

\* What a call returns of a decode.  DecodeReader names the format the guest
\* found; decodeRegistered drops that, and the image package gives the name of
\* the entry it chose.
adapted(op, entry, found) ==
  IF found \in Formats
  THEN [ err  |-> "nil",
         name |-> CASE op \in ImageOps           -> entry.name
                    [] op = "DecodeReader"       -> formatName[found]
                    [] op = "DecodeConfigReader" -> blank ]
  ELSE [err |-> found, name |-> blank]

\* MUTANT of Decode: a decode that fails is tried again.
DecodeAgain(g) ==
  /\ at[g].pc = "decode"
  /\ LET result == adapted(at[g].op, at[g].entry, Found[at[g].src])
     IN  IF result.err = "nil" THEN finish(g, result.err, result.name)
         ELSE goto(g, "read")
  /\ UNCHANGED <<once, served>>

Decode(g) ==
  /\ at[g].pc = "decode"
  /\ LET result == adapted(at[g].op, at[g].entry, Found[at[g].src])
     IN  finish(g, result.err, result.name)
  /\ UNCHANGED <<once, served>>

----------------------------------------------------------------------------
\* The steps of a call that has begun.
Proceed(g) ==
  \/ OnceDo(g) \/ OnceLock(g) \/ RegisterNext(g) \/ OnceStore(g) \/ OnceUnlock(g)
  \/ Sniff(g) \/ RivalDecodes(g) \/ ReadAll(g) \/ Decode(g)

Next ==
  \/ \E g \in Goroutines :
       \/ CallRegisterFormats(g)
       \/ \E op \in ImageOps, src \in Sources : CallDecode(g, op, src)
       \/ \E op \in ReaderOps, src \in Sources : CallReader(g, op, src)
       \/ Proceed(g)
  \/ \E f \in Rivals : RegisterRival(f)

\* Go schedules every goroutine that can run; nobody has to make a call.
Fairness == \A g \in Goroutines : WF_vars(Proceed(g))

Spec == Init /\ [][Next]_vars /\ Fairness

----------------------------------------------------------------------------
(* Every variable has its type, and a stage that fails returns no name: the
   adapter's calls give an error or a result, never part of each. *)
TypeOK ==
  /\ formats \in Seq(Entries)
  /\ onceDone \in BOOLEAN
  /\ onceMutex \in Goroutines \cup {nobody}
  /\ served \subseteq Goroutines
  /\ \A g \in Goroutines :
       /\ at[g].err \in Errors
       /\ at[g].err # "nil" => at[g].name = blank

(* Once RegisterFormats has returned to anyone, image.Decode and
   image.DecodeConfig never again answer ErrFormat to a source the catalog has a
   magic for, whoever calls them and however far the other calls have got. *)
SupportedOnceRegistered ==
  [][ \A g \in Goroutines :
        /\ served # {}
        /\ at[g].pc = "sniff"
        /\ \E i \in DOMAIN Catalog : <<Catalog[i].magic, at[g].src>> \in Matches
        => at'[g].err # "ErrFormat" ]_vars

(* The name image.Decode returns for a source one of the catalog's entries was
   chosen for is the one DecodeReader gives the same source: the catalog's names
   and formatName's agree, so it does not matter that decodeRegistered drops it. *)
NamesAgree ==
  [][ \A g \in Goroutines :
        /\ at[g].op = "Decode" /\ at[g].entry.ours
        /\ at'[g].pc = "idle" /\ at'[g].err = "nil"
        => at'[g].name = adapted("DecodeReader", noEntry, Found[at[g].src]).name ]_vars

(* No call waits for ever: not a RegisterFormats that finds another one in the
   loop, nor a decode beside it. *)
EveryCallReturns ==
  \A g \in Goroutines : at[g].pc # "idle" ~> at[g].pc = "idle"

\* The catalog's entries among those of a registry, in their order.
mine(list)    == {i \in DOMAIN list : list[i].ours}
rank(list, i) == Cardinality({j \in mine(list) : j <= i})

oursOf(list) ==
  [k \in 1..Cardinality(mine(list)) |->
     LET i == CHOOSE i \in mine(list) : rank(list, i) = k
     IN  [name |-> list[i].name, magic |-> list[i].magic]]

Contract ==
  INSTANCE RegistryContract WITH
    submitted <- oursOf(formats),
    callers   <- {g \in Goroutines : at[g].pc \in {"once", "lock", "loop", "unlock"}}

(* However calls of RegisterFormats race each other and other packages'
   registrations, the catalog enters the registry once and in order, and no call
   returns before it is complete. *)
RegistersOnce == Contract!Spec

=============================================================================

----------------------------- MODULE RegistryContract -----------------------------
(***************************************************************************)
(* What RegisterFormats promises (registration.go): however many goroutines *)
(* call it, the catalog is submitted to the image package's registry once     *)
(* and in its order, no call returns before all of it is there, and every     *)
(* call returns.                                                               *)
(***************************************************************************)
EXTENDS Naturals, Sequences

CONSTANTS
  Goroutines,
  Catalog        \* the entries to submit, in order

VARIABLES
  submitted,     \* the entries in the registry
  callers        \* the goroutines inside RegisterFormats

vars == <<submitted, callers>>

Init == submitted = <<>> /\ callers = {}

Call(g) ==
  /\ g \notin callers
  /\ callers' = callers \cup {g}
  /\ UNCHANGED submitted

Submit ==
  /\ callers # {}
  /\ Len(submitted) < Len(Catalog)
  /\ submitted' = Append(submitted, Catalog[Len(submitted) + 1])
  /\ UNCHANGED callers

Return(g) ==
  /\ g \in callers
  /\ submitted = Catalog
  /\ callers' = callers \ {g}
  /\ UNCHANGED submitted

Next == Submit \/ \E g \in Goroutines : Call(g) \/ Return(g)

Fairness == WF_vars(Submit) /\ \A g \in Goroutines : WF_vars(Return(g))

Spec == Init /\ [][Next]_vars /\ Fairness

=============================================================================

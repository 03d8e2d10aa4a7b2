------------------------------ MODULE Parameters ------------------------------
(***************************************************************************)
(* The parameter dictionaries of internal/parameters/merge.go, and what    *)
(* "sticky" means for them, said without a loop over the steps.            *)
(***************************************************************************)
EXTENDS Integers, FiniteSets, Functions

CONSTANTS
  Key,       \* the keys of a dictionary
  Val,       \* the values of a key
  EmptyText  \* the value "", which overrides nothing in a step

ASSUME ParameterConstants == EmptyText \in Val

\* type Values map[string]any
Values == UNION {[K -> Val] : K \in SUBSET Key}
NoValues == [k \in {} |-> EmptyText]

\* A copy of `values' with the entries of `over' put in.
Overlaid(values, over) ==
  [k \in DOMAIN values \cup DOMAIN over |->
     IF k \in DOMAIN over THEN over[k] ELSE values[k]]

AtTaskStart(base, group) == Overlaid(base, group)

\* The entries of a step's overrides that count.
NonEmpty(overrides) ==
  Restrict(overrides, {k \in DOMAIN overrides : overrides[k] # EmptyText})

FaultyAtStep(current, overrides) == Overlaid(current, overrides)
AtStep(current, overrides) == Overlaid(current, NonEmpty(overrides))

-----------------------------------------------------------------------------
(* The reference: the value a key has at step n of a task that starts with
   `start' is the one the latest of the steps 1..n that overrides it gives it,
   and its value in `start' if none does. overrides[p] are the overrides of
   step p. *)

Overriders(overrides, n, k) == {p \in 1..n : k \in DOMAIN NonEmpty(overrides[p])}

Latest(P) == CHOOSE p \in P : \A q \in P : q <= p

StickyKeys(start, overrides, n) ==
  DOMAIN start \cup UNION {DOMAIN NonEmpty(overrides[p]) : p \in 1..n}

Sticky(start, overrides, n) ==
  [k \in StickyKeys(start, overrides, n) |->
     LET P == Overriders(overrides, n, k)
     IN  IF P = {} THEN start[k] ELSE overrides[Latest(P)][k]]
=============================================================================

----------------------------- MODULE Ownership -----------------------------
(***************************************************************************)
(* What the documentation of the *_new and *_free functions promises about *)
(* memory, for an application that keeps several handles: a call gives out *)
(* one handle, or takes one back, or does neither.  Between the calls, the *)
(* memory there is belongs to the handles that are held.                   *)
(***************************************************************************)
CONSTANT Handles

VARIABLE held   \* those that memory belongs to

OwnershipInit == held = {}

Acquire(h) == /\ h \notin held
              /\ held' = held \cup {h}

Release(h) == /\ h \in held
              /\ held' = held \ {h}

OwnershipNext == \E h \in Handles : Acquire(h) \/ Release(h)

OwnershipSpec == OwnershipInit /\ [][OwnershipNext]_held
=============================================================================

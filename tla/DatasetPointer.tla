--------------------------- MODULE DatasetPointer ---------------------------
(***************************************************************************)
(* What current.json promises its readers, with no file system, lease or   *)
(* process in sight: one pointer that names the current generation and its *)
(* predecessor.  It moves to a generation that was never published before, *)
(* swaps with its predecessor, or, after a power loss, falls back to a     *)
(* value it has had since it was last made durable.  Only as long as the   *)
(* directory it lives in is new may a power loss take it away altogether.  *)
(***************************************************************************)
CONSTANTS Gens,    \* generation identifiers
          NoGen    \* no generation

VARIABLES pointer,      \* the pair <current, previous> readers resolve
          recoverable,  \* the pointers a power loss may leave behind
          published,    \* the generations the pointer has ever named
          rooted        \* has its directory been found after a power loss?

NoPointer == [current |-> NoGen, previous |-> NoGen]

Init == /\ pointer = NoPointer
        /\ recoverable = {NoPointer}
        /\ published = {}
        /\ rooted = FALSE

\* A generation becomes current once in its life; what was current before it
\* is kept as its predecessor.
Publish(g) == /\ g \notin published
              /\ pointer' = [current |-> g, previous |-> pointer.current]
              /\ recoverable' = recoverable \cup {pointer'}
              /\ published' = published \cup {g}
              /\ UNCHANGED rooted

Swap == /\ pointer.previous # NoGen
        /\ pointer' = [current |-> pointer.previous, previous |-> pointer.current]
        /\ recoverable' = recoverable \cup {pointer'}
        /\ UNCHANGED <<published, rooted>>

Harden == /\ recoverable' = {pointer}
          /\ UNCHANGED <<pointer, published, rooted>>

Recover == /\ pointer' \in recoverable
           /\ recoverable' = {pointer'}
           /\ rooted' = TRUE
           /\ UNCHANGED published

Lose == /\ ~rooted
        /\ pointer' = NoPointer
        /\ recoverable' = {NoPointer}
        /\ published' = {}
        /\ UNCHANGED rooted

Next == \/ \E g \in Gens : Publish(g)
        \/ Swap
        \/ Harden
        \/ Recover
        \/ Lose

Spec == Init /\ [][Next]_<<pointer, recoverable, published, rooted>>
=============================================================================

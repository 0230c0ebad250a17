------------------------------- MODULE MCLink -------------------------------
(***************************************************************************)
(* Small instances of Link.                                                *)
(***************************************************************************)
EXTENDS LinkTurnsInv, TLC

\* A source with a gap in its main heights, a block of one message, one
\* without messages and one of two.
MCBlockHeights == {1, 2, 4, 5}
MCEndSeq == (1 :> 0) @@ (2 :> 1) @@ (4 :> 1) @@ (5 :> 3)

\* One more block, with messages in every block; the relay starts on a link
\* that has been in use.
MCLongHeights == {3, 4, 6, 7, 8}
MCLongEndSeq == (3 :> 2) @@ (4 :> 3) @@ (6 :> 5) @@ (7 :> 6) @@ (8 :> 7)

\* The same with a last block whose messages are too many for one relay message.
MCFullEndSeq == (3 :> 2) @@ (4 :> 3) @@ (6 :> 5) @@ (7 :> 6) @@ (8 :> 10)

\* Fewer blocks.
MCShortHeights == {1, 2, 4}
MCShortEndSeq == (1 :> 0) @@ (2 :> 1) @@ (4 :> 3)

\* The stored heights sort like numbers: what Retained, Delivers and Covered are proved
\* under.
ASSUME MCKeysOrdered == KeysOrdered

\* What the theorems about TurnsInv are proved under.
ASSUME MCTakingTurns == FirstIsStart /\ (Preemptive \/ TakingTurns)

\* What the theorems about CalmInv are proved under.
ASSUME MCLeftAlone == Faults = {} /\ MaxCrashes = 0 => LeftAlone /\ BlocksFit
=============================================================================

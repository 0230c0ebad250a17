------------------------------- MODULE Lists -------------------------------
(***************************************************************************)
(* What the relay does with its slices.  SelectInSeq, RemoveAt and Last    *)
(* mean what they mean in SequencesExt; they are stated here because a     *)
(* proof carries all definitions of the modules it reaches, and            *)
(* SequencesExt more than doubles the time of every proof in this project. *)
(***************************************************************************)
EXTENDS Integers, Sequences, FiniteSetsExt

\* The first index of s whose element passes Test; 0 if there is none.
SelectInSeq(s, Test(_)) ==
  LET found == {i \in 1..Len(s) : Test(s[i])}
  IN  IF found # {} THEN Min(found) ELSE 0

\* s without its i-th element.
RemoveAt(s, i) == SubSeq(s, 1, i - 1) \o SubSeq(s, i + 1, Len(s))

Last(s) == s[Len(s)]

\* s without its elements up to and including the first one that passes Test:
\* the loop "for i, x := range s { if Test(x) { s = s[i+1:]; break } }".
DropThrough(s, Test(_)) == SubSeq(s, SelectInSeq(s, Test) + 1, Len(s))
=============================================================================

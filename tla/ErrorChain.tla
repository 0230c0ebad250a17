---------------------------- MODULE ErrorChain -----------------------------
(***************************************************************************)
(* Errors of common/errors: how an error is made, wrapped and given a code *)
(* while it travels up, and how CodeOf, CoderOf and Is find what is in it. *)
(* The senders send a result to the link only for an error in which        *)
(* CoderOf finds a code.  An error is the sequence of its layers, the      *)
(* outermost first; nil is the empty sequence.  Texts and stacks are left  *)
(* out.                                                                    *)
(***************************************************************************)
EXTENDS Integers, Sequences

CONSTANTS Codes,      \* codes that callers attach
          MaxLayers   \* bound on the layers of an error

ErrorChainAssumption == Codes \subseteq Nat /\ MaxLayers \in Nat

Success == 0
UnknownError == 1001
NoCode == -100

\* What a contract reverts with: the ends of the ranges of btp_error.go.
Reverts == {-1, 0, 9, 10, 24, 25, 39, 40, 54, 55}

\* A layer: whether it has ErrorCode (then its code), whether its Unwrap passes
\* over the error below it, whether its type is one of the package, and which
\* object it is (0: one that nobody but the layer above it refers to).
Layer(code, skips, ours, id) == [code |-> code, skips |-> skips, ours |-> ours, id |-> id]

Foreign(id) == Layer(NoCode, FALSE, FALSE, id)              \* errors.New, fmt.Errorf with %w
withStack(id) == Layer(NoCode, TRUE, TRUE, id)
withCodeAndStack(c, id) == Layer(c, TRUE, TRUE, id)
codedError(c, id) == Layer(c, FALSE, TRUE, id)
withFormat(id) == Layer(NoCode, TRUE, TRUE, id)

\* wrappedWithStack, wrappedWithMessage, and with a code wrappedWithCode and
\* wrappedWithCodeMessage.
wrapped(id) == Layer(NoCode, FALSE, TRUE, id)
wrappedWithCode(c, id) == Layer(c, FALSE, TRUE, id)

\* Unwrap of each layer of e, the method, and the function for what has none: the
\* place of the error below it, past those that are passed over; 0 is nil.
Unwrap(e) ==
  LET below[i \in DOMAIN e] == IF i = Len(e) THEN 0 ELSE IF e[i].skips THEN below[i + 1] ELSE i + 1
  IN  below

\* The errors that a walk down from each layer of e meets.
Causes(e) ==
  LET from[i \in 0 .. Len(e)] == IF i = 0 THEN <<>> ELSE <<SubSeq(e, i, Len(e))>> \o from[Unwrap(e)[i]]
  IN  IF e = <<>> THEN <<>> ELSE from[1]

\* FindCause: the first of them on which the callback agrees.
FindCause(e, cb(_)) == LET found == SelectSeq(Causes(e), cb) IN IF found = <<>> THEN <<>> ELSE found[1]

\* Mutant: only the outermost layer is looked at.
CoderOfOutermost(e) == IF e[1].code # NoCode THEN e ELSE <<>>

CoderOf(e) == FindCause(e, LAMBDA x : x[1].code # NoCode)

CodeOf(e) == IF e = <<>> THEN Success ELSE IF CoderOf(e) = <<>> THEN UnknownError ELSE CoderOf(e)[1].code

Is(e, id) == FindCause(e, LAMBDA x : x[1].id = id) # <<>>

VARIABLES err, returned, code, formatted

(* err: the error; returned: the objects that were the error at some time;  *)
(* code: the code given last; formatted: objects that Error has wrapped.    *)
vars == <<err, returned, code, formatted>>

Init == err = <<>> /\ returned = {} /\ code = Success /\ formatted = {}

Fresh == Len(err) + 1
Room == Len(err) + 2 <= MaxLayers

\* A new error e that is the object id, with code c.
Made(e, c) ==
  /\ err = <<>> /\ err' = e /\ returned' = {Fresh} /\ code' = c /\ UNCHANGED formatted

NewForeign == Made(<<Foreign(Fresh)>>, UnknownError)
New == Made(<<withStack(Fresh), Foreign(0)>>, UnknownError)
NewBase(c) == Made(<<codedError(c, Fresh)>>, c)
Errorc(c) == Made(<<withCodeAndStack(c, Fresh), Foreign(0)>>, c)

\* NewRevertError gives no error for a negative number.
NewRevertError(c) == c >= 0 /\ NewBase(c)

\* The error becomes e on top of what it was.  A nil error stays nil.
Wrapped(e, c) ==
  /\ err # <<>> /\ Room
  /\ err' = e \o err /\ returned' = returned \cup {Fresh} /\ code' = c /\ UNCHANGED formatted

Wrap == Wrapped(<<wrapped(Fresh)>>, code)                      \* Wrapf
WithStack == Wrap
Wrapc(c) == Wrapped(<<wrappedWithCode(c, Fresh)>>, c)          \* Wrapcf
WithCode(c) == Wrapc(c)
FmtErrorf == Wrapped(<<Foreign(Fresh)>>, code)
Errorf == Wrapped(<<withStack(Fresh), Foreign(0)>>, code)      \* with %w
Errorcf(c) == Wrapped(<<withCodeAndStack(c, Fresh), Foreign(0)>>, c)

\* Error leaves the types of the package alone.
ErrorFormat ==
  /\ err # <<>> /\ Room /\ ~err[1].ours
  /\ err' = <<withFormat(Fresh)>> \o err
  /\ returned' = returned \cup {Fresh} /\ formatted' = formatted \cup {err[1].id} /\ UNCHANGED code

Next ==
  \/ NewForeign \/ New \/ \E c \in Reverts : NewRevertError(c)
  \/ \E c \in Codes : NewBase(c) \/ Errorc(c) \/ Wrapc(c) \/ WithCode(c) \/ Errorcf(c)
  \/ Wrap \/ WithStack \/ FmtErrorf \/ Errorf \/ ErrorFormat

Spec == Init /\ [][Next]_vars

-----------------------------------------------------------------------------
\* The code of an error is the one that was attached last, however it has been
\* wrapped since: this is what makes a sender report a failed transaction to the
\* link, and makes the link recognise a full queue (InvalidStateError.Equals).
CodeIsLast == CodeOf(err) = code

\* Every error that was wrapped on the way is found again by Is, except for one
\* of another package that Error was applied to, whose wrapper passes over it.
CausesFound == \A id \in returned : Is(err, id) \/ id \in formatted
=============================================================================

----------------------------- MODULE Selectors -----------------------------
(***************************************************************************)
(* Whether the labels of a service match a selector, as it is written in a *)
(* port rule: selector_util.go of controller/rancher.                      *)
(*                                                                         *)
(* A selector is a sequence of tokens: words, and the marks = != ( ) and   *)
(* comma; "in" and "notin" between spaces are the tokens In and NotIn.     *)
(* Labels are pairs of words.  Case does not matter and is left out; so is *)
(* a selector whose last character has several bytes, of which the code    *)
(* loses the last constraint.                                              *)
(***************************************************************************)
EXTENDS Naturals, FiniteSetsExt, SequencesExt

In == " in "
NotIn == " notin "
Marks == {"=", "!=", In, NotIn, "(", ")", ","}

\* What remains of a constraint while the selector is read: inside a list a
\* comma does not end it.
ReadToken(scan, token) ==
  CASE token = "(" -> [scan EXCEPT !.inList = TRUE]
    [] token = ")" -> [scan EXCEPT !.inList = FALSE]
    [] token = "," /\ ~scan.inList -> [scan EXCEPT !.done = Append(@, scan.current), !.current = <<>>]
    [] OTHER -> [scan EXCEPT !.current = Append(@, token)]

\* The end of the selector ends a constraint, too, unless a comma just has.
ConstraintTexts(selector) ==
  LET scan == FoldLeft(ReadToken, [done |-> <<>>, current |-> <<>>, inList |-> FALSE], selector)
      ended == Last(selector) = "," /\ ~scan.inList
  IN IF ended THEN scan.done ELSE Append(scan.done, scan.current)

\* GetSelectorConstraint splits a constraint at "=", also that of "!=", whose
\* "!" stays with the key.  In this first iteration of its loop it returns, so
\* that every other constraint asks for a label without a name.
Equals(text) == {i \in DOMAIN text : text[i] \in {"=", "!="}}

KeyOf(text, i) == SubSeq(text, 1, i - 1) \o (IF text[i] = "!=" THEN <<"!">> ELSE <<>>)
ValueOf(text, i) == SubSeq(text, i + 1, Len(text))

ConstraintMatches(text, labels) ==
  \E i \in Equals(text), l \in labels :
    /\ Cardinality(Equals(text)) = 1
    /\ KeyOf(text, i) = <<l[1]>>
    /\ ValueOf(text, i) = <<l[2]>>

\* A plausible mistake: one constraint is enough.
MatchesSome(selector, labels) ==
  /\ selector # <<>>
  /\ \E text \in ToSet(ConstraintTexts(selector)) : ConstraintMatches(text, labels)

IsSelectorMatch(selector, labels) ==
  /\ selector # <<>>
  /\ \A text \in ToSet(ConstraintTexts(selector)) : ConstraintMatches(text, labels)

-----------------------------------------------------------------------------
\* A list of equations, and what it asks of labels.
IsEquations(selector) ==
  /\ Len(selector) % 4 = 3
  /\ \A i \in DOMAIN selector :
       /\ i % 4 = 2 => selector[i] = "="
       /\ i % 4 = 0 => selector[i] = ","
       /\ i % 4 \in {1, 3} => selector[i] \notin Marks

Asks(selector, labels) ==
  \A i \in DOMAIN selector : i % 4 = 2 => <<selector[i - 1], selector[i + 1]>> \in labels
=============================================================================

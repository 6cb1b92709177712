---------------------------- MODULE MessageMatch ----------------------------
(***************************************************************************)
(* messageIncludesSubscription (operatorpolicy_controller.go 713-728):     *)
(* does the ResolutionFailed message OLM writes on every Subscription of   *)
(* a namespace name this Subscription or its package?  The code builds     *)
(*   (?:subscription (?:S|NS\/S)|package (?:P|NS\/P))(?:$|\s|,|:)          *)
(* from the QuoteMeta'd names and matches it anywhere in the message.      *)
(*                                                                         *)
(* A message is a sequence of symbols: single characters, and the two      *)
(* literal prefixes "subscription " and "package " of the pattern as one   *)
(* symbol each.  The generator below enumerates every message up to        *)
(* MaxLen symbols; the matcher is compared with a reference definition,    *)
(* "the name OLM mentions, as a whole DNS name, is this one".              *)
(***************************************************************************)
EXTENDS Naturals, Sequences, SequencesExt

CONSTANTS
    NameChars,   \* characters that may occur in a name ("-" and "." included)
    Delims,      \* whitespace, "," and ":": the pattern's terminators
    Others,      \* other characters OLM's messages contain, "." excluded
    KwSub,       \* the symbol for the literal "subscription "
    KwPkg,       \* the symbol for the literal "package "
    Subs,        \* Subscriptions: records [name, pkg, ns] of sequences
    MaxLen       \* bound on the message length

Slash == "/"
Alphabet == NameChars \cup Delims \cup Others \cup {Slash, KwSub, KwPkg}

ASSUME "." \in NameChars /\ Slash \notin NameChars \cup Delims \cup Others
ASSUME MaxLen \in Nat

VARIABLE msg

(* The names the pattern accepts after each literal: the name and the
   namespace-qualified name (safeNs + `\/` + safeName).                    *)
Mentions(sub, kw) ==
    LET n == IF kw = KwSub THEN sub.name ELSE sub.pkg
    IN  {n, sub.ns \o <<Slash>> \o n}

(* (?:$|\s|,|:) at position j.                                             *)
Terminated(m, j) == j > Len(m) \/ m[j] \in Delims

(* Mutant: the pattern without its terminator group.                     *)
MatchWithoutTerminator(sub, m) ==
    \E i \in 1..Len(m) :
        /\ m[i] \in {KwSub, KwPkg}
        /\ \E n \in Mentions(sub, m[i]) : IsPrefix(n, SubSeq(m, i + 1, Len(m)))

(* regexp.MatchString of the crafted pattern: unanchored, so any position
   may start the match.                                                    *)
MessageIncludesSubscription(sub, m) ==
    \E i \in 1..Len(m) :
        /\ m[i] \in {KwSub, KwPkg}
        /\ \E n \in Mentions(sub, m[i]) :
              /\ IsPrefix(n, SubSeq(m, i + 1, Len(m)))
              /\ Terminated(m, i + 1 + Len(n))

-----------------------------------------------------------------------------
(* Reference: the token after the literal is the longest run of name
   characters and "/"; a DNS name cannot end in ".", so a trailing "." is
   sentence punctuation, not part of the name.  A literal starts with a
   letter, so it continues the token (and no name equals such a token).   *)
RECURSIVE TokenFrom(_, _)
TokenFrom(m, j) ==
    CASE j > Len(m)                         -> <<>>
      [] m[j] \in {KwSub, KwPkg}             -> <<m[j]>>
      [] m[j] \in NameChars \cup {Slash}     -> <<m[j]>> \o TokenFrom(m, j + 1)
      [] OTHER                              -> <<>>

RECURSIVE TrimPeriods(_)
TrimPeriods(t) ==
    IF t # <<>> /\ Last(t) = "." THEN TrimPeriods(Front(t)) ELSE t

NamedInMessage(sub, m) ==
    \E i \in 1..Len(m) :
        /\ m[i] \in {KwSub, KwPkg}
        /\ TrimPeriods(TokenFrom(m, i + 1)) \in Mentions(sub, m[i])

-----------------------------------------------------------------------------
(* Messages are built one symbol at a time up to MaxLen.                   *)
Init == msg = <<>>

Extend == \E c \in Alphabet : Len(msg) < MaxLen /\ msg' = Append(msg, c)

Spec == Init /\ [][Extend]_msg

(* No false match: the pattern only matches a message that mentions this
   Subscription or its package as a whole name, so a package that is a
   prefix of another ("gatekeeper-operator" and
   "gatekeeper-operator-product") is never taken for it (spec §8).        *)
NoFalseMatch ==
    \A sub \in Subs : MessageIncludesSubscription(sub, msg) => NamedInMessage(sub, msg)

(* No missed match: every message that names this Subscription or its
   package as a whole name is recognised, so a ResolutionFailed about it is
   not reported as "matches".                                              *)
NoMissedMatch ==
    \A sub \in Subs : NamedInMessage(sub, msg) => MessageIncludesSubscription(sub, msg)
=============================================================================

-------------------------- MODULE SemanticVersions --------------------------
(***************************************************************************)
(* Versions and version ranges of packages: SemanticVersion::parse over a   *)
(* text of characters, its inverse toString, the order of two versions and  *)
(* the comparators a range is made of.  A parse that fails is {}, one that  *)
(* succeeds {version}.                                                      *)
(***************************************************************************)
EXTENDS Integers, SequencesExt

CONSTANTS Digits,   \* the digit characters, each with its value
          Others,   \* the other characters an identifier may have
          RankOf,   \* their order as bytes
          MaxInt    \* the largest value of the C++ type int

Identifier == DOMAIN Digits \union Others

(***************************************************************************)
(* SemanticVersion::parse.                                                  *)
(***************************************************************************)

(* The last position of the longest run from `from` on of such characters.  *)
RunEnd(text, from, characters) ==
  CHOOSE end \in from - 1 .. Len(text) :
    /\ \A i \in from .. end : text[i] \in characters
    /\ end < Len(text) => text[end + 1] \notin characters

CharAt(text, at) == IF at \in DOMAIN text THEN text[at] ELSE "end"

ValueOf(digits) == FoldLeft(LAMBDA value, digit : 10 * value + Digits[digit], 0, digits)

IsNumeric(identifier) == identifier # <<>> /\ ToSet(identifier) \subseteq DOMAIN Digits

LeadingZero(digits) == Len(digits) > 1 /\ digits[1] = "0"

(* A parse under way: the position it has reached and the parts it has      *)
(* read, until a part does not parse.                                       *)
Beginning == [ok |-> TRUE, next |-> 1, parts |-> <<>>]
Failed == [ok |-> FALSE, next |-> 1, parts |-> <<>>]
Read(state, next, part) == [ok |-> TRUE, next |-> next, parts |-> Append(state.parts, part)]

Number(text, state) ==
  LET end    == RunEnd(text, state.next, DOMAIN Digits)
      digits == SubSeq(text, state.next, end)
  IN  IF ~state.ok \/ end < state.next \/ LeadingZero(digits) \/ ValueOf(digits) > MaxInt
      THEN Failed ELSE Read(state, end + 1, ValueOf(digits))

Dot(text, state) ==
  IF state.ok /\ CharAt(text, state.next) = "."
  THEN [state EXCEPT !.next = @ + 1] ELSE Failed

(* The identifiers between dots from `from` on, as long as characters of    *)
(* identifiers and dots follow each other.                                  *)
DottedParts(text, from, end) ==
  LET dots   == {i \in from .. end : text[i] = "."}
      bounds == SetToSortSeq(dots \union {from - 1, end + 1}, <)
  IN  [i \in 1 .. Len(bounds) - 1 |-> SubSeq(text, bounds[i] + 1, bounds[i + 1] - 1)]

ValidParts(parts, strict) ==
  \A i \in DOMAIN parts :
    /\ parts[i] # <<>>
    /\ strict => ~(IsNumeric(parts[i]) /\ LeadingZero(parts[i]))

Identifiers(text, state, strict) ==
  LET end   == RunEnd(text, state.next, Identifier \union {"."})
      parts == DottedParts(text, state.next, end)
  IN  IF state.ok /\ ValidParts(parts, strict) THEN Read(state, end + 1, parts) ELSE Failed

(* An optional part of the version, introduced by one character.            *)
Suffix(text, state, mark, strict) ==
  IF state.ok /\ CharAt(text, state.next) = mark
  THEN Identifiers(text, [state EXCEPT !.next = @ + 1], strict)
  ELSE IF state.ok THEN Read(state, state.next, <<>>) ELSE Failed

ParseVersion(text) ==
  LET core  == Number(text, Dot(text, Number(text, Dot(text, Number(text, Beginning)))))
      whole == Suffix(text, Suffix(text, core, "-", TRUE), "+", FALSE)
  IN  IF whole.ok /\ whole.next = Len(text) + 1
      THEN {[major |-> whole.parts[1], minor |-> whole.parts[2], patch |-> whole.parts[3],
             prerelease |-> whole.parts[4], build |-> whole.parts[5]]}
      ELSE {}

(***************************************************************************)
(* SemanticVersion::toString.                                               *)
(***************************************************************************)

DigitsOf(n) ==
  LET digit(value) == CHOOSE c \in DOMAIN Digits : Digits[c] = value
  IN  IF n < 10 THEN <<digit(n)>> ELSE <<digit(n \div 10), digit(n % 10)>>

Dotted(mark, parts) ==
  FoldLeftDomain(LAMBDA text, i : text \o <<IF i = 1 THEN mark ELSE ".">> \o parts[i], <<>>, parts)

TextOf(version) ==
  DigitsOf(version.major) \o <<".">> \o DigitsOf(version.minor) \o <<".">>
    \o DigitsOf(version.patch) \o Dotted("-", version.prerelease) \o Dotted("+", version.build)

(***************************************************************************)
(* compareSemanticVersion: -1, 0 or 1.                                      *)
(***************************************************************************)

Sign(left, right) == IF left < right THEN -1 ELSE IF left = right THEN 0 ELSE 1

(* Two sequences by their first difference, then by length.                 *)
FirstDifference(left, right, compare(_, _)) ==
  LET shared == DOMAIN left \intersect DOMAIN right
      differ == {i \in shared : compare(left[i], right[i]) # 0}
  IN  IF differ = {} THEN Sign(Len(left), Len(right))
      ELSE LET first == Min(differ) IN compare(left[first], right[first])

CompareBytes(left, right) == Sign(RankOf[left], RankOf[right])

CompareText(left, right) == FirstDifference(left, right, CompareBytes)

(* Mutant: a number and a word are compared as text too.                    *)
CompareMixed(left, right) ==
  IF IsNumeric(left) /\ IsNumeric(right) /\ Len(left) # Len(right)
  THEN Sign(Len(left), Len(right)) ELSE CompareText(left, right)

CompareIdentifier(left, right) ==
  IF IsNumeric(left) /\ IsNumeric(right) /\ Len(left) # Len(right)
  THEN Sign(Len(left), Len(right))
  ELSE IF IsNumeric(left) # IsNumeric(right)
  THEN IF IsNumeric(left) THEN -1 ELSE 1
  ELSE CompareText(left, right)

ComparePrerelease(left, right) ==
  IF left = <<>> \/ right = <<>>
  THEN Sign(Len(right), Len(left))
  ELSE FirstDifference(left, right, CompareIdentifier)

Compare(left, right) ==
  IF left.major # right.major THEN Sign(left.major, right.major)
  ELSE IF left.minor # right.minor THEN Sign(left.minor, right.minor)
  ELSE IF left.patch # right.patch THEN Sign(left.patch, right.patch)
  ELSE ComparePrerelease(left.prerelease, right.prerelease)

(***************************************************************************)
(* VersionRange: a token is an operator and a version; every comparator of  *)
(* every token has to hold.                                                 *)
(***************************************************************************)

Operators == {"*", "^", "~", "=", ">", ">=", "<", "<="}

(* int arithmetic; past MaxInt the build wraps around.                      *)
Successor(n) == IF n = MaxInt THEN -MaxInt - 1 ELSE n + 1

Release(major, minor, patch) ==
  [major |-> major, minor |-> minor, patch |-> patch, prerelease |-> <<>>, build |-> <<>>]

CaretUpperBound(version) ==
  IF version.major > 0 THEN Release(Successor(version.major), 0, 0)
  ELSE IF version.minor > 0 THEN Release(0, Successor(version.minor), 0)
  ELSE Release(0, 0, Successor(version.patch))

TildeUpperBound(version) == Release(version.major, Successor(version.minor), 0)

Comparators(token) ==
  CASE token.op = "*" -> {}
    [] token.op = "^" -> {[op |-> ">=", version |-> token.version],
                          [op |-> "<", version |-> CaretUpperBound(token.version)]}
    [] token.op = "~" -> {[op |-> ">=", version |-> token.version],
                          [op |-> "<", version |-> TildeUpperBound(token.version)]}
    [] OTHER -> {token}

CompareMatches(version, comparator) ==
  LET ordering == Compare(version, comparator.version)
  IN  CASE comparator.op = "="  -> ordering = 0
        [] comparator.op = ">"  -> ordering > 0
        [] comparator.op = ">=" -> ordering >= 0
        [] comparator.op = "<"  -> ordering < 0
        [] comparator.op = "<=" -> ordering <= 0

Matches(range, version) ==
  \A token \in range : \A comparator \in Comparators(token) :
    CompareMatches(version, comparator)
=============================================================================

--------------------------- MODULE CountAttribute ---------------------------
(***************************************************************************)
(* The staked_count attribute of an MPL Core collection, as the staking    *)
(* program of Assignment_04 keeps it: read by a search for its key's text  *)
(* in the bytes of the account, and written together with the whole list   *)
(* of attributes.                                                          *)
(***************************************************************************)
EXTENDS Integers, Sequences

CONSTANTS
  Keys,       \* the keys of attributes,
  Mentions,   \*   those that hold the text "staked_count" (an attribute whose
  Endings,    \*   value holds it is read like one of these), those that end
  CountKey,   \*   in it, and the one that is this text
  Text        \* a value that spells no number

ASSUME KeysAssumption ==
  /\ CountKey \in Endings /\ Endings \subseteq Mentions /\ Mentions \subseteq Keys
  /\ Text \notin Int

Attribute == [key : Keys, value : Int \cup {Text}]

\* The bytes in order: name and URI, which may hold the text, then the list.
Collection == [mentioned : BOOLEAN, attributes : Seq(Attribute)]

\* What follows the text is a value only where the text ends a key.
ValueAfter(x) == IF x.key \in Endings /\ x.value # Text THEN x.value ELSE 0

\* Mutant of ParsedCount: only the first attribute is looked at.
MutantParsedCount(data) ==
  IF data.attributes = <<>> THEN 0 ELSE ValueAfter(data.attributes[1])

\* parse_staked_count(..).unwrap_or(0): the first occurrence decides.
ParsedCount(data) ==
  LET list == data.attributes
      First(i) == /\ list[i].key \in Mentions
                  /\ \A j \in 1 .. i - 1 : list[j].key \notin Mentions
  IN  IF data.mentioned \/ \A i \in DOMAIN list : ~First(i)
        THEN 0
        ELSE ValueAfter(list[CHOOSE i \in DOMAIN list : First(i)])

NewCount(data, delta) ==
  IF ParsedCount(data) + delta < 0 THEN 0 ELSE ParsedCount(data) + delta

\* update_staked_count: the attribute replaces the list.
Updated(data, delta) ==
  [data EXCEPT !.attributes = <<[key |-> CountKey, value |-> NewCount(data, delta)]>>]

-----------------------------------------------------------------------------
\* The count that the collection shows to whoever reads its attributes.
ShownCount(data) ==
  LET shown == {i \in DOMAIN data.attributes : data.attributes[i].key = CountKey}
  IN  IF shown = {} THEN 0 ELSE data.attributes[CHOOSE i \in shown : TRUE].value

\* The text is nowhere but in one key, and the value of that is a count.
Unambiguous(data) ==
  /\ ~data.mentioned
  /\ \A i \in DOMAIN data.attributes :
       LET x == data.attributes[i]
       IN  x.key \in Mentions =>
             /\ x.key = CountKey /\ x.value # Text /\ x.value >= 0
             /\ \A j \in DOMAIN data.attributes : data.attributes[j].key = CountKey => i = j

=============================================================================

-------------------------------- MODULE ShortIds --------------------------------
(***************************************************************************)
(* The short ids of links: the number of a link, made of its shard's range *)
(* and its Id in the shard's table, in base 62, and back.  From Shared/    *)
(* Services/UrlEncoder.cs, Entities/ShortId.cs and Utils/ShortIdUtils.cs.  *)
(* The module counts through all short ids there are.                      *)
(***************************************************************************)
EXTENDS Integers, Sequences, SequencesExt

CONSTANTS
    Numerals, Letters, \* 10 and 26 in the code
    Width,             \* 7
    RangeSize,         \* 10 000 000
    StarterRange       \* 100 000 000 000

VARIABLE
    number \* of a short id

vars == <<number>>

\* A character is one of its kind by its position there.
Characters(kind, count) == [i \in 1 .. count |-> [kind |-> kind, position |-> i - 1]]

Elements ==
    Characters("0..9", Numerals) \o Characters("a..z", Letters) \o Characters("A..Z", Letters)

Base == Len(Elements)

\* Mutant: capitals come first.
Convert_CapitalsFirst(c) ==
    CASE c.kind = "0..9" -> c.position
      [] c.kind = "A..Z" -> c.position + Numerals
      [] c.kind = "a..z" -> c.position + Numerals + Letters

Convert(c) ==
    CASE c.kind = "0..9" -> c.position
      [] c.kind = "a..z" -> c.position + Numerals
      [] c.kind = "A..Z" -> c.position + Numerals + Letters

Base62ToBase10(base62) == FoldLeft(LAMBDA x, c : x * Base + Convert(c), 0, base62)

\* The last digit is inserted first.
Digits[n \in Nat] ==
    IF n = 0 THEN <<>> ELSE Append(Digits[n \div Base], Elements[(n % Base) + 1])

Padding(n) == [i \in 1 .. Width - Len(Digits[n]) |-> Elements[1]]

\* The second loop pads to Width; it never ends for a longer number.
Terminates(n) == Len(Digits[n]) <= Width
Base10ToBase62(n) == Padding(n) \o Digits[n]

\* ToString
Number(id) == RangeSize * id.range + id.index + StarterRange
ShortId(id) == Base10ToBase62(Number(id))

\* Division of C#, towards zero.
Quotient(a, b) == IF a >= 0 THEN a \div b ELSE -((-a) \div b)
Remainder(a, b) == a - b * Quotient(a, b)

\* The id of a number below StarterRange has a negative range or Id, which no shard
\* has.
ParseId(shortId) ==
    LET fromStart == Base62ToBase10(shortId) - StarterRange
    IN [range |-> Quotient(fromStart, RangeSize), index |-> Remainder(fromStart, RangeSize)]

Init == number = 0

Next == Terminates(number + 1) /\ number' = number + 1

Spec == Init /\ [][Next]_vars

-------------------------------------------------------------------------------
(* Properties *)

\* Every variable has its type.
TypeOK == number \in Nat

\* Every short id, also one that was never given out, is that of the id it is parsed
\* to and of no other: a link that is found is the one that was shortened.  Ids
\* within their shard's range are never taken for those of another shard.
ShortIdsReadBack ==
    LET shortId == Base10ToBase62(number)
        id == ParseId(shortId)
    IN /\ Len(shortId) = Width /\ Base62ToBase10(shortId) = number
       /\ ShortId(id) = shortId
       /\ number >= StarterRange =>
              \A range \in {id.range - 1, id.range, id.range + 1}, index \in 0 .. RangeSize - 1 :
                  ShortId([range |-> range, index |-> index]) = shortId
                      <=> id = [range |-> range, index |-> index]
===============================================================================

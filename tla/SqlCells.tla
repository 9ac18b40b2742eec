------------------------------ MODULE SqlCells ------------------------------
(* Cells of the custom SQL engine and what the engine computes from one row: *)
(* comparison, index keys and coercion to a column type.                     *)
(*                                                                           *)
(* A cell is [t |-> type, v |-> integer]. Ints and bools hold their value, a *)
(* float holds its value in halves (1 stands for 0.5), and text holds its    *)
(* place in Texts, the texts of the instance in strcmp order.                *)
EXTENDS Integers, Sequences, SequencesExt, FiniteSetsExt

CONSTANTS
    MinInt, MaxInt,     \* the int range of the build (INT32_MIN, INT32_MAX)
    KeyWidth,           \* BTREE_STRING_KEY_BYTES
    Texts,              \* texts as sequences of letters, in strcmp order
    Canonical,          \* [date, timestamp] -> the texts in canonical form
    TextBits            \* what a text cell's pointer reads as through as_int

\* The letters LIKE gives a meaning to.
Percent == 1
Underscore == 2

LetterAt(s, i) == IF i <= Len(s) THEN s[i] ELSE 0

\* strcmp on two texts: the first letter that differs decides.
Before(s, u) ==
    \E i \in 1 .. (Len(s) + Len(u)) :
        /\ LetterAt(s, i) < LetterAt(u, i)
        /\ \A j \in 1 .. (i - 1) : LetterAt(s, j) = LetterAt(u, j)

ASSUME CellConstants ==
    /\ MinInt \in Int /\ MaxInt \in Int /\ MinInt < 0 /\ MaxInt > 0
    /\ KeyWidth \in Nat /\ TextBits \in MinInt..MaxInt
    /\ Texts[1] = <<>>
    /\ \A i, j \in DOMAIN Texts : i < j => Before(Texts[i], Texts[j])

Null == [t |-> "null", v |-> 0]
IntCell(n) == [t |-> "int", v |-> n]
FloatCell(h) == [t |-> "float", v |-> h]
TextTypes == {"string", "date", "timestamp"}

IsNull(c) == c.t = "null"
cell_owns_text(type) == type \in TextTypes

\* The zero of a column type: 0, 0.0 or the empty text.
ZeroCell(type) == [t |-> type, v |-> IF cell_owns_text(type) THEN 1 ELSE 0]

-----------------------------------------------------------------------------
(* Comparison.                                                               *)

Sign(n) == IF n < 0 THEN -1 ELSE IF n > 0 THEN 1 ELSE 0

\* The number a cell stands for, in halves, when the other side is a float.
AsHalves(c) ==
    CASE c.t = "float"       -> c.v
      [] cell_owns_text(c.t) -> 2 * TextBits
      [] OTHER               -> 2 * c.v

\* The NULL order is for sorting and grouping; WHERE never gets here with NULL.
cell_compare(a, b) ==
    CASE IsNull(a) /\ IsNull(b)                     -> 0
      [] IsNull(a)                                  -> -1
      [] IsNull(b)                                  -> 1
      [] cell_owns_text(a.t) /\ cell_owns_text(b.t) -> Sign(a.v - b.v)
      [] {a.t, b.t} \subseteq {"int", "bool"}       -> Sign(a.v - b.v)
      [] "float" \in {a.t, b.t}                     -> Sign(AsHalves(a) - AsHalves(b))
      [] OTHER                                      -> 0

-----------------------------------------------------------------------------
(* Index keys: a tag for the type, then bytes that order like the values.    *)

Prefix(i) == SubSeq(Texts[i], 1, Min({KeyWidth, Len(Texts[i])}))

\* Texts that agree on their first KeyWidth letters share one key.
TextKey(i) == Min({j \in DOMAIN Texts : Prefix(j) = Prefix(i)})

encode_key(c) ==
    CASE IsNull(c)              -> <<0, 0>>
      [] c.t \in {"int", "bool"} -> <<1, c.v>>
      [] c.t = "float"          -> <<2, c.v>>
      [] OTHER                  -> <<3, TextKey(c.v)>>

KeyLess(k, l) == k[1] < l[1] \/ (k[1] = l[1] /\ k[2] < l[2])

-----------------------------------------------------------------------------
(* Conversions on the way in and out of a statement.                         *)

\* Whether a cell can be stored in a column, and the cell that is stored.
CanCoerce(c, type) ==
    type \in {"date", "timestamp"} /\ c.t \notin {"null", type} =>
        c.t = "string" /\ c.v \in Canonical[type]
cell_coerce_to_column(c, type) ==
    IF type \in {"date", "timestamp"} /\ c.t = "string" THEN [c EXCEPT !.t = type] ELSE c

\* The literal a bound value becomes: a bool binds as an int, anything that is
\* neither a number nor a string binds as NULL.
sql_param_cell(value) ==
    CASE value.t = "bool"                       -> IntCell(value.v)
      [] value.t \in {"int", "float", "string"} -> value
      [] OTHER                                  -> Null

=============================================================================

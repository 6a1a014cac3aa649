-------------------------------- MODULE Json --------------------------------
(* What the discriminators see of a reply: values as json.loads and          *)
(* xml_to_juniper_dict leave them, as tagged records, with the reads Python   *)
(* does on them.  Text is a token in lower case; a numeral is tagged by how   *)
(* it is spelt, since int(), float() and the unit-tolerant readers differ.    *)
EXTENDS Integers, Sequences, SequencesExt, TLC

Null == [null |-> TRUE]
Str(s) == [str |-> s]
Num(n) == [num |-> n]
Bool(b) == [bool |-> b]
Dict(f) == [dict |-> f]
List(s) == [list |-> s]
NoKeys == Dict([k \in {} |-> Null])

IsDict(v) == "dict" \in DOMAIN v
IsList(v) == "list" \in DOMAIN v
IsStr(v) == "str" \in DOMAIN v
IsNum(v) == "num" \in DOMAIN v
IsNull(v) == "null" \in DOMAIN v

Truthy(v) ==
    \/ IsDict(v) /\ DOMAIN v.dict # {}
    \/ IsList(v) /\ v.list # <<>>
    \/ IsStr(v) /\ v.str # ""
    \/ IsNum(v) /\ v.num # 0
    \/ v = Bool(TRUE)

Has(v, k) == IsDict(v) /\ k \in DOMAIN v.dict
Get(v, k) == IF Has(v, k) THEN v.dict[k] ELSE Null      \* v.get(k), also of None
OrElse(v, w) == IF Truthy(v) THEN v ELSE w              \* v or w
Text(v) == IF IsStr(v) THEN v.str ELSE IF IsNull(v) THEN "" ELSE "number"

\* str() of a member: "none" of a null, nothing of one that is not there.
Printed(v, k) == IF Has(v, k) /\ IsNull(Get(v, k)) THEN "none" ELSE Text(Get(v, k))

\* What `x or []` and `x or {}` can be walked as; anything else raises.
Iterable(v) == Truthy(v) => IsList(v) \/ IsDict(v) \/ IsStr(v)
Mapping(v) == Truthy(v) => IsDict(v)

\* The elements of a list, or of a map by their keys, as a function.
Elems(v) == IF IsDict(v) THEN v.dict ELSE IF IsList(v) THEN v.list ELSE <<>>
Count(v, P(_)) == Cardinality({i \in DOMAIN Elems(v) : P(Elems(v)[i])})

Items(v) == IF IsList(v) THEN v.list ELSE <<>>          \* v or [], less what is no object
Dicts(s) == SelectSeq(s, IsDict)
Keys(v) == IF IsDict(v) THEN SetToSeq(DOMAIN v.dict) ELSE <<>>

\* A record under construction, and fields that are set only when measured.
Field(k, v) == [x \in {k} |-> v]
Optional(k, v) == IF IsNull(v) THEN <<>> ELSE Field(k, v)
With(f, g) == [x \in DOMAIN f \cup DOMAIN g |-> IF x \in DOMAIN f THEN f[x] ELSE g[x]]
Bit(b) == IF b THEN 1 ELSE 0

(* Junos wraps every leaf as [{"data": v, "attributes": {...}}].              *)
Leaf(node) ==
    IF IsList(node) /\ node.list # <<>> /\ Has(Head(node.list), "data")
        THEN Head(node.list).dict["data"]
        ELSE IF IsStr(node) THEN node ELSE Str("")
JVal(node) == Text(Leaf(node))

\* Which spellings each numeric reader accepts: "12", "12.3", "12 MB", "12%".
Numeral(node, spellings) ==
    LET ok == DOMAIN Leaf(node) \cap spellings
    IN IF ok = {} THEN Null ELSE Num(Leaf(node)[CHOOSE s \in ok : TRUE])
JNum(node) == Numeral(node, {"num"})
JNumLead(node) == Numeral(node, {"num", "sized"})
JFloat(node) == Numeral(node, {"num", "decimal"})
JPct(node) == Numeral(node, {"num", "decimal", "percent"})

JAttr(node, attr) ==
    IF ~(IsList(node) /\ node.list # <<>>) THEN Null
    ELSE LET a == Get(Get(Head(node.list), "attributes"), attr)
         IN IF IsNum(a) THEN a ELSE Null

First(node) == IF IsList(node) /\ node.list # <<>> THEN Head(node.list) ELSE node
JList(node) == IF IsList(node) THEN node.list ELSE IF IsNull(node) THEN <<>> ELSE <<node>>
==============================================================================

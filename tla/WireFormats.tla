---------------------------- MODULE WireFormats ----------------------------
(***************************************************************************)
(* How the payload of a Java packet is read: one field after the other,    *)
(* where what a field holds decides which fields follow.                   *)
(*                                                                         *)
(* A format is a sequence of fields and marks.  A field [k, arms] is read  *)
(* as the kind k and holds one of DOMAIN arms; arms gives what follows it  *)
(* for each.  Values read alike are one value: 0 stands for every value    *)
(* nothing depends on, Malformed for bytes that are not a value of the     *)
(* kind, Outside for a value outside an enumeration or a range the code    *)
(* knows, Huge for a number that is finite and does not fit a float32.  A  *)
(* mark is where the code does something without reading:                  *)
(*   refuse          it returns an error nobody handles                    *)
(*   unsupported of  it returns ErrUnsupportedJava... of that kind         *)
(*   too many        it refuses one element more than its limit            *)
(*   catch of        the errors of these kinds are handled, reading goes on *)
(*   skip of         the handler drops the packet on errors of these kinds *)
(*   end             it requires that nothing is left                      *)
(*   drop of         the handler drops the packet if one of these values   *)
(*                   is outside                                            *)
(*   replace of      it leaves these values out, clamps or replaces them   *)
(*   send of         it writes to the client, these values not             *)
(* and the marks of items, see ItemFormats.  A ref stands for the format   *)
(* of that name at that depth.                                             *)
(***************************************************************************)
EXTENDS Integers, Sequences, SequencesExt, FiniteSetsExt, TLC

CONSTANT MaxElements   \* the limit of every array, and the longest one written

ASSUME WireFormatsAssumption == MaxElements \in Nat \ {0}

Malformed == 1001
Outside == 1002
Huge == 1003

Mark(m) == <<[k |-> m]>>
NoForm(error) == <<[k |-> "unsupported", of |-> error]>>
Catch(errors) == <<[k |-> "catch", of |-> errors]>>
Skip(errors) == <<[k |-> "skip", of |-> errors]>>
DropOn(kinds) == <<[k |-> "drop", of |-> kinds]>>
Replace(kinds) == <<[k |-> "replace", of |-> kinds]>>
SendWithout(kinds) == <<[k |-> "send", of |-> kinds]>>
Send == SendWithout({})
Refused == Mark("refuse")
TooMany == Mark("too many")
End == Mark("end")
Ref(name, depth) == <<[k |-> "ref", of |-> name, depth |-> depth]>>
Marks == {"refuse", "unsupported", "too many", "catch", "skip", "end", "drop",
          "replace", "send", "component", "foreign", "removed", "item"}

Choice(k, arms) == <<[k |-> k, arms |-> arms]>>

(***************************************************************************)
(* What the reader of java/protocol checks by itself: varints of at most   *)
(* five or ten bytes with nothing in the bits beyond, strings of UTF-8     *)
(* within their limit, tags that are complete.                             *)
(***************************************************************************)
ReadVarInt == 0 :> <<>> @@ Malformed :> Refused
ReadVarLong == 0 :> <<>> @@ Malformed :> Refused
ReadString == 0 :> <<>> @@ Malformed :> Refused

\* An anonymous tag is a compound, a string or none; the server writes no other root.
DecodeAnonymousNBT == 0 :> <<>> @@ Malformed :> Refused

\* Fields the code takes only some values of: varints and strings, which may be malformed,
\* and those of a fixed width.
RangesRead ==
    {"level", "ticks", "sound category", "entity", "effect", "attribute", "entity type", "object",
     "block state", "block", "block entity type", "stage", "style", "group"}
Ranges == RangesRead \cup
    {"number", "double", "health", "knockback", "scale", "target", "progress", "speed", "mode",
     "difficulty", "duration", "amount", "actor", "event", "action", "value", "modifier", "data",
     "time"}
ValuesOf(k) ==
    0 :> <<>> @@ Outside :> <<>>
    @@ (IF k \in RangesRead THEN Malformed :> Refused ELSE <<>>)
    @@ (IF k = "double" THEN Huge :> <<>> ELSE <<>>)

Field(k) ==
    [k |-> k, arms |-> CASE k = "varint" -> ReadVarInt
                         [] k = "varlong" -> ReadVarLong
                         [] k = "string" -> ReadString
                         [] k = "nbt" -> DecodeAnonymousNBT
                         [] k \in Ranges -> ValuesOf(k)
                         [] OTHER -> 0 :> <<>>]
Fields(kinds) == [i \in DOMAIN kinds |-> Field(kinds[i])]
Times(n, format) == FlattenSeq([i \in 1..n |-> format])

\* A field of an enumeration whose values are followed by different formats.
Enumeration(k, arms, outside) == Choice(k, arms @@ Outside :> outside)
Enumerations ==
    {"animation", "consume effect", "shape", "held slot", "inventory slot", "slot display",
     "recipe display", "component", "metadata type", "particle", "position source", "bar action",
     "objective action", "team mode", "block entity", "reason", "sound"} \cup Ranges

(***************************************************************************)
(* Arrays, optional values, holders                                        *)
(***************************************************************************)
\* Mutant: the limit is not checked.
CountedUnlimited(format) ==
    Choice("count", [n \in -1..MaxElements + 1 |-> IF n >= 0 THEN Times(n, format) ELSE Refused])

\* boundedJavaCount, readCollectionCountLimit and the loop over the count
Counted(format) ==
    Choice("count", [n \in -1..MaxElements + 1 |->
                        IF n \in 0..MaxElements THEN Times(n, format) ELSE Refused])

\* A length and as many bytes.
ByteArray == Counted(<<>>)

decodeJavaOptional(format) == Choice("bool", 0 :> <<>> @@ 1 :> format)

\* Zero is followed by the definition itself, and a negative number is refused.
decodeJavaRegistryHolder(custom) == Choice("holder", 0 :> custom @@ 1 :> <<>> @@ -1 :> Refused)

\* A holder whose reader takes every other number for one of the registry.
Holder(custom) == Choice("varint", ReadVarInt @@ 1 :> custom)

\* decodeJavaIDSet: zero is a tag, n is for n - 1 numbers.
decodeJavaIDSet ==
    Choice("id set", [n \in -1..MaxElements + 2 |->
                         CASE n = 0 -> Fields(<<"string">>)
                           [] n \in 1..MaxElements + 1 -> Times(n - 1, Fields(<<"varint">>))
                           [] OTHER -> Refused])

\* Values no server writes: not of their kind, negative counts or numbers, counts above the limit.
Counts == {"count", "item count", "holder", "id set", "optional number"}
Invalid(k, v) ==
    \/ /\ k \in RangesRead \cup {"varint", "varlong", "string", "nbt", "held slot", "inventory slot",
                             "optional number", "block entity", "sound"}
       /\ v = Malformed
    \/ k \in Counts /\ v < 0
    \/ k = "count" /\ v > MaxElements
    \/ k = "id set" /\ v > MaxElements + 1
=============================================================================

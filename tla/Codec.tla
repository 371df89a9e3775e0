-------------------------------- MODULE Codec --------------------------------
(***************************************************************************)
(* A message of uniswap.proto written by one module and read by another,   *)
(* by each of the three readers the crate publishes: the owned message,    *)
(* the view and the lazy view.  Their generated functions are the tables   *)
(* of OwnedMessages, ViewMessages and LazyMessages; the operators here are *)
(* what every arm of those functions does with its entry.                  *)
(*                                                                         *)
(* A message in memory is the function of the fields that are not at their *)
(* default: the presence test every encoder starts a field with.           *)
(***************************************************************************)
EXTENDS Wire, FiniteSets, FiniteSetsExt, Functions, OwnedMessages, ViewMessages, LazyMessages

CONSTANTS
    Kinds,          \* the messages exchanged, a subset of DOMAIN Fields
    MaxParts,       \* bound: fields set by the writer and records added on the way
    MaxAdded        \* bound: records added on the way

ASSUME KindsAssumption == Kinds \subseteq DOMAIN Fields
ASSUME BoundsAssumption == MaxParts \in Nat \ {0} /\ MaxAdded \in Nat

VARIABLES
    phase,      \* "write", "carry", "read", then "done"
    kind,       \* the message's type
    msg,        \* the writer's message
    size,       \* what compute_size found for it
    wire,       \* its bytes, with what was added on the way
    added,      \* how many records were added
    rest,       \* what the readers have not read
    reads,      \* reader -> [ok, value]
    outcomes,   \* reader -> the owned message its consumer ends up with
    rewrites    \* view   -> its bytes when it is written again, and their size

vars == <<phase, kind, msg, size, wire, added, rest, reads, outcomes, rewrites>>

Views == {"view", "lazy"}
Readers == {"owned"} \cup Views

Unset == << >>
With(m, field, v) == (field :> v) @@ m
Without(m, field) == Restrict(m, DOMAIN m \ {field})
IsMessage(type) == type \in DOMAIN Fields
Good(m) == [ok |-> TRUE, value |-> m]
Error == [ok |-> FALSE, value |-> Unset]

SizeTable  == [owned |-> OwnedSize, view |-> ViewSize, lazy |-> LazySize]
WriteTable == [owned |-> OwnedWrite, view |-> ViewWrite, lazy |-> LazyWrite]
MergeTable == [owned |-> OwnedMerge, view |-> ViewMerge, lazy |-> LazyMerge]
OwnedTable == [view |-> ViewOwned, lazy |-> LazyOwned]

-----------------------------------------------------------------------------
(* Encoding, in two passes that share a cache of the nested sizes. *)

RECURSIVE ComputeSize(_, _, _, _)

\* Reserve a slot, size the nested message, fill the slot.
SizeInner(form, type, tagBytes, m, acc) ==
    LET slot  == Len(acc.cache) + 1
        inner == ComputeSize(form, type, m, Append(acc.cache, 0))
    IN  [size  |-> acc.size + tagBytes + VarintLen(inner.size) + inner.size,
         cache |-> [inner.cache EXCEPT ![slot] = inner.size]]

\* Recorded fragments are counted as they came.
SizeFragments(tagBytes, fragments, acc) ==
    [acc EXCEPT !.size = FoldSeq(LAMBDA f, sum : sum + tagBytes + VarintLen(Width(f)) + Width(f),
                                 @, fragments)]

ComputeSize(form, type, m, cache) ==
    FoldLeft(LAMBDA acc, entry :
        LET tagBytes == entry[1]  how == entry[2]  field == entry[3]
        IN  IF field \notin DOMAIN m THEN acc
            ELSE CASE how \in Scalars -> [acc EXCEPT !.size = @ + tagBytes + EncodedLen(how, m[field])]
                   [] how = "one"  -> SizeInner(form, Fields[type][field], tagBytes, m[field], acc)
                   [] how = "many" -> FoldLeft(LAMBDA a, v : SizeInner(form, Fields[type][field],
                                                                       tagBytes, v, a), acc, m[field])
                   [] how \in {"frag", "raw"} -> SizeFragments(tagBytes, m[field], acc),
        [size |-> 0, cache |-> cache], SizeTable[form][type])

RECURSIVE WriteTo(_, _, _, _)

\* The length prefix is the next size of the cache, not the length of what follows.
WriteInner(form, type, number, m, acc) ==
    LET inner == WriteTo(form, type, m, Tail(acc.sizes))
    IN  [out   |-> acc.out \o <<Tag(number, "len"), Varint(Head(acc.sizes))>> \o inner.out,
         sizes |-> inner.sizes]

WriteFragments(number, fragments, acc) ==
    [acc EXCEPT !.out = @ \o FlattenSeq([i \in DOMAIN fragments |-> Delimited(number, fragments[i])])]

WriteTo(form, type, m, sizes) ==
    FoldLeft(LAMBDA acc, entry :
        LET number == entry[1]  how == entry[2]  field == entry[3]
        IN  IF field \notin DOMAIN m THEN acc
            ELSE CASE how \in Scalars -> [acc EXCEPT !.out = @ \o PutField(number, how, m[field])]
                   [] how = "one"  -> WriteInner(form, Fields[type][field], number, m[field], acc)
                   [] how = "many" -> FoldLeft(LAMBDA a, v : WriteInner(form, Fields[type][field],
                                                                        number, v, a), acc, m[field])
                   [] how \in {"frag", "raw"} -> WriteFragments(number, m[field], acc),
        [out |-> << >>, sizes |-> sizes], WriteTable[form][type])

Encode(form, type, m) ==
    LET sized == ComputeSize(form, type, m, << >>)
    IN  [size |-> sized.size, out |-> WriteTo(form, type, m, sized.cache).out]

-----------------------------------------------------------------------------
(* Decoding: one record merged at a time, in the order they come. *)

\* A scalar replaces what an earlier record left, a text only when it is UTF-8.
MergeScalar(how, m, field, payload) ==
    LET v == IF how # "string" THEN FromWire(how, payload[1][2])
             ELSE IF payload = << >> THEN "" ELSE payload[1][2]
    IN  IF how = "string" /\ (Len(payload) > 1 \/ (payload # << >> /\ payload[1][1] # "text") \/ v = "bad")
        THEN Error
        ELSE Good(IF IsDefault(how, v) THEN Without(m, field) ELSE With(m, field, v))

FragmentsOf(m, field) == IF field \in DOMAIN m THEN m[field] ELSE << >>

RECURSIVE MergeAll(_, _, _, _)

\* A nested message is merged into what is there, an element is decoded on its
\* own and appended; either may fail.
MergeOne(reader, type, m, field, payload) ==
    LET inner == MergeAll(reader, type, IF field \in DOMAIN m THEN m[field] ELSE Unset, payload)
    IN  IF inner.ok THEN Good(With(m, field, inner.value)) ELSE Error
MergeMany(reader, type, m, field, payload) ==
    LET element == MergeAll(reader, type, Unset, payload)
    IN  IF element.ok THEN Good(With(m, field, Append(FragmentsOf(m, field), element.value))) ELSE Error

\* An unknown number is skipped, a wrong wire type refused.
MergeRecord(reader, type, m, record) ==
    LET arms == { a \in MergeTable[reader][type] : a[1] = record.number }
    IN  IF arms = {} THEN Good(m)
        ELSE LET arm == CHOOSE a \in arms : TRUE
                 how == arm[2]  field == arm[3]
             IN  IF (how \in Numbers) # (record.wireType = "varint") THEN Error
                 ELSE CASE how \in Scalars -> MergeScalar(how, m, field, record.payload)
                        [] how = "one" -> MergeOne(reader, Fields[type][field], m, field, record.payload)
                        [] how = "many" -> MergeMany(reader, Fields[type][field], m, field, record.payload)
                        [] how \in {"frag", "raw"} ->
                              Good(With(m, field, Append(FragmentsOf(m, field), record.payload)))

MergeAll(reader, type, m, tokens) ==
    IF tokens = << >> THEN Good(m)
    ELSE LET record == NextRecord(tokens)
             merged == IF record.ok THEN MergeRecord(reader, type, m, record) ELSE Error
         IN  IF merged.ok THEN MergeAll(reader, type, merged.value, record.rest) ELSE Error

\* clear(), on an owned message that is used again.
Clear(type, m) == Restrict(m, DOMAIN m \ OwnedClear[type])

-----------------------------------------------------------------------------
(* Views made into owned messages: fields a function does not name keep their default. *)

RECURSIVE ToOwned(_, _, _)

\* Faulty: the fragments are decoded as one buffer.
MergeFragmentsJoined(type, fragments) == MergeAll("lazy", type, Unset, FlattenSeq(fragments))

\* A lazy field decodes its fragments only now, each within its own bounds and
\* into what the ones before it left, so an error in one shows here.
MergeFragments(type, fragments) ==
    FoldLeft(LAMBDA m, f : IF m.ok THEN MergeAll("lazy", type, m.value, f) ELSE Error,
             Good(Unset), fragments)

InnerToOwned(reader, type, x) ==
    IF reader = "view" THEN ToOwned("view", type, x)
    ELSE LET decoded == MergeFragments(type, x)
         IN  IF decoded.ok THEN ToOwned("lazy", type, decoded.value) ELSE Error
ElementToOwned(reader, type, x) == InnerToOwned(reader, type, IF reader = "view" THEN x ELSE <<x>>)

ToOwned(reader, type, m) ==
    LET table == OwnedTable[reader][type]
        one   == [f \in table.one \cap DOMAIN m |-> InnerToOwned(reader, Fields[type][f], m[f])]
        many  == [f \in table.many \cap DOMAIN m |->
                     [i \in DOMAIN m[f] |-> ElementToOwned(reader, Fields[type][f], m[f][i])]]
    IN  IF (\A f \in DOMAIN one : one[f].ok) /\ (\A f \in DOMAIN many : \A i \in DOMAIN many[f] : many[f][i].ok)
        THEN Good([f \in DOMAIN one |-> one[f].value]
                  @@ [f \in DOMAIN many |-> [i \in DOMAIN many[f] |-> many[f][i].value]]
                  @@ Restrict(m, table.copy \cap DOMAIN m))
        ELSE Error

-----------------------------------------------------------------------------
(* The values exchanged. *)

\* The widest value of a scalar type.
Widest(type) ==
    CASE type = "uint64" -> Two64 - 1
      [] type = "uint32" -> Two32 - 1
      [] type = "int32"  -> -1
      [] type = "bool"   -> TRUE
      [] type = "string" -> "long"
IsMany(type, field) == field \in ViewOwned[type].many

\* A message with every field set, as a used message holds.
Full[type \in DOMAIN Fields] ==
    [f \in DOMAIN Fields[type] |->
        IF ~IsMessage(Fields[type][f]) THEN Widest(Fields[type][f])
        ELSE IF IsMany(type, f) THEN <<Full[Fields[type][f]]>> ELSE Full[Fields[type][f]]]

FieldValues(type, field) ==
    LET t == Fields[type][field]
    IN  IF ~IsMessage(t) THEN {Widest(t)}
        ELSE IF IsMany(type, field) THEN {<<Unset>>, <<Full[t], Unset>>}
        ELSE {Unset, Full[t]}

\* Parts of a nested message: none of it, its first or its last scalar, a wrong
\* wire type, a part cut short within a known or an unknown field.
Fragments(type) ==
    LET scalars == { e \in ToSet(OwnedWrite[type]) : e[2] \in Scalars }
        numbers == { e[1] : e \in scalars }
        ends    == { e \in scalars : e[1] \in {Min(numbers), Max(numbers)} }
    IN  { << >>, <<Tag(Min(numbers), "len"), Varint(1)>>, <<Tag(99, "len"), Varint(2)>> }
        \cup { PutField(e[1], e[2], Widest(e[2])) : e \in ends }
        \cup { IF e[2] \in Numbers THEN Delimited(e[1], << >>) ELSE <<Tag(e[1], "varint"), Varint(1)>> :
                  e \in ends }

\* What another encoder may write for a field: an explicit default, a value
\* wider than the field, a second part of a nested message; and what no encoder
\* writes: another wire type, a text that is not UTF-8, a damaged part.
RecordsFor(number, how, type) ==
    CASE how \in Numbers ->
            { <<Tag(number, "varint"), Varint(w)>> : w \in {0, Two64 - 1} } \cup {Delimited(number, << >>)}
      [] how = "string"  ->
            { Delimited(number, p) : p \in {<< >>, <<Text("s")>>, <<Text("bad")>>} }
            \cup { <<Tag(number, "varint"), Varint(1)>> }
      [] OTHER -> { Delimited(number, f) : f \in Fragments(type) }
Unknown == <<Tag(99, "varint"), Varint(1)>>
Records ==
    {Unknown} \cup
    UNION { RecordsFor(e[1], e[2], Fields[kind][e[3]]) :
              e \in { e \in ToSet(OwnedWrite[kind]) : msg = Unset \/ e[3] \in DOMAIN msg } }

-----------------------------------------------------------------------------
Init ==
    /\ phase = "write"
    /\ kind \in Kinds
    /\ msg = Unset
    /\ size = 0
    /\ wire = << >>
    /\ added = 0
    /\ rest = << >>
    /\ reads = [r \in Readers |-> Good(Unset)]
    /\ outcomes = reads
    /\ rewrites = [r \in Views |-> [size |-> 0, out |-> << >>]]

\* The writer sets a field that is at its default.
SetField ==
    /\ phase = "write"
    /\ Cardinality(DOMAIN msg) < MaxParts
    /\ \E f \in DOMAIN Fields[kind] \ DOMAIN msg : \E v \in FieldValues(kind, f) : msg' = With(msg, f, v)
    /\ UNCHANGED <<phase, kind, size, wire, added, rest, reads, outcomes, rewrites>>

Send ==
    /\ phase = "write"
    /\ phase' = "carry"
    /\ LET e == Encode("owned", kind, msg) IN size' = e.size /\ wire' = e.out
    /\ UNCHANGED <<kind, msg, added, rest, reads, outcomes, rewrites>>

\* A record another encoder, or a damaged byte, puts after the others.
Add ==
    /\ phase = "carry"
    /\ added < MaxAdded
    /\ Cardinality(DOMAIN msg) + added < MaxParts
    /\ \E r \in Records : wire' = wire \o r
    /\ added' = added + 1
    /\ UNCHANGED <<phase, kind, msg, size, rest, reads, outcomes, rewrites>>

\* The three readers start; the owned one may be a message cleared after use.
Receive ==
    /\ phase = "carry"
    /\ phase' = "read"
    /\ rest' = wire
    /\ \E used \in {Unset, Full[kind]} : reads' = [reads EXCEPT !["owned"] = Good(Clear(kind, used))]
    /\ UNCHANGED <<kind, msg, size, wire, added, outcomes, rewrites>>

\* Every reader that has not failed merges the next record.
MergeField ==
    /\ phase = "read"
    /\ rest # << >>
    /\ LET record == NextRecord(rest)
       IN  /\ reads' = [r \in Readers |->
                           IF record.ok /\ reads[r].ok THEN MergeRecord(r, kind, reads[r].value, record)
                           ELSE Error]
           /\ rest' = record.rest
    /\ UNCHANGED <<phase, kind, msg, size, wire, added, outcomes, rewrites>>

\* The consumer takes an owned message from each reader, and the two views are
\* written again.
Finish ==
    /\ phase = "read"
    /\ rest = << >>
    /\ phase' = "done"
    /\ outcomes' = [r \in Readers |-> IF r = "owned" \/ ~reads[r].ok THEN reads[r]
                                       ELSE ToOwned(r, kind, reads[r].value)]
    /\ rewrites' = [r \in Views |-> IF reads[r].ok THEN Encode(r, kind, reads[r].value) ELSE rewrites[r]]
    /\ UNCHANGED <<kind, msg, size, wire, added, rest, reads>>

Next == SetField \/ Send \/ Add \/ Receive \/ MergeField \/ Finish

Spec == Init /\ [][Next]_vars

-----------------------------------------------------------------------------
RECURSIVE IsOf(_, _)

\* m is a message of the type: fields it has, with values their types hold.
IsOf(type, m) ==
    \A f \in DOMAIN m :
        /\ f \in DOMAIN Fields[type]
        /\ LET t == Fields[type][f]
           IN  IF ~IsMessage(t) THEN m[f] \in ScalarValues(t) /\ ~IsDefault(t, m[f])
               ELSE IF IsMany(type, f) THEN \A i \in DOMAIN m[f] : IsOf(t, m[f][i])
               ELSE IsOf(t, m[f])

\* The state is of its types; in particular what the owned reader and the view
\* hold never exceeds the width of a field, whatever the wire carried.
TypeOK ==
    /\ phase \in {"write", "carry", "read", "done"}
    /\ kind \in Kinds
    /\ IsOf(kind, msg)
    /\ added \in 0 .. MaxAdded
    /\ \A r \in {"owned", "view"} : IsOf(kind, reads[r].value)

\* A message one module writes is the message the next one reads, with any of
\* the three readers, whatever the reader's message held before it was cleared
\* (write_to against merge_field, merge_view_field and _merge_lazy).
RoundTrip ==
    phase = "done" /\ added = 0 => \A r \in Readers : outcomes[r] = Good(msg)

\* The assertion behind debug_assert_two_pass, for the three encoders: what
\* write_to puts out has the length compute_size found.
PassesAgree ==
    /\ phase # "write" /\ added = 0 => Width(wire) = size
    /\ \A r \in Views : Width(rewrites[r].out) = rewrites[r].size

\* The three readers give a consumer the same message, or all fail: a part the
\* lazy view has not validated fails when it is made an owned message.
ReadersAgree ==
    phase = "done" => outcomes["owned"] = outcomes["view"] /\ outcomes["view"] = outcomes["lazy"]

\* A view or a lazy view written again is read as the message it stood for, and
\* a part the lazy view never decoded is as unreadable as it was.
RewritesKeepMessage ==
    phase = "done" => \A r \in Views :
        reads[r].ok => MergeAll("owned", kind, Unset, rewrites[r].out) = outcomes[r]
=============================================================================

------------------------------- MODULE Decode -------------------------------
(***************************************************************************)
(* JsonDecoder: the payloads of a topic become a schema and a table.       *)
(* arrow-json reads the payloads joined by newlines: to infer a schema     *)
(* line by line, each line one object, and to decode as a stream of        *)
(* objects.  An object is known by its "id", which stands for its values,  *)
(* and by the kinds of value that its columns have.                        *)
(***************************************************************************)
EXTENDS Naturals, Sequences

Null == "null"

Numbers == {"int", "float"}

(* "text" stands for every value that is neither null nor a number, and    *)
(* that a column of numbers does not take for one.                         *)
Values == Numbers \cup {"text", Null}

(* A payload that does not parse has no objects; a tombstone, or white     *)
(* space, has none either but parses.  The objects of "perLine" payloads   *)
(* each fill one line.                                                     *)
IsObject(o) ==
    /\ DOMAIN o = {"id", "columns"}
    /\ \A c \in DOMAIN o.columns : o.columns[c] \in Values

IsSequence(s) == s \in Seq({s[i] : i \in DOMAIN s})

IsPayload(p) ==
    /\ p = [valid |-> p.valid, perLine |-> p.perLine, objects |-> p.objects]
    /\ {p.valid, p.perLine} \subseteq BOOLEAN
    /\ IsSequence(p.objects) /\ \A i \in DOMAIN p.objects : IsObject(p.objects[i])

Payload(objects) == [valid |-> TRUE, perLine |-> TRUE, objects |-> objects]
PrettyPrinted(object) == [valid |-> TRUE, perLine |-> FALSE, objects |-> <<object>>]
Unparsable == [valid |-> FALSE, perLine |-> FALSE, objects |-> <<>>]
Tombstone == Payload(<<>>)

(* The sequences of ss one behind the other: at i, the first i of them. *)
Concatenated(ss) ==
    LET upTo[i \in 0 .. Len(ss)] == IF i = 0 THEN <<>> ELSE upTo[i - 1] \o ss[i]
    IN  upTo

(* join_with_newlines: the objects of the first i payloads. *)
Joined(payloads) == Concatenated([i \in DOMAIN payloads |-> payloads[i].objects])

Objects(payloads) == Joined(payloads)[Len(payloads)]

First(n, s) == IF Len(s) <= n THEN s ELSE SubSeq(s, 1, n)

(* A reader that stops after n objects gets to see payload i. *)
Reaches(payloads, n, i) == Len(Joined(payloads)[i - 1]) < n

-----------------------------------------------------------------------------
(* infer_schema *)

Columns(objects) == UNION {DOMAIN objects[i].columns : i \in DOMAIN objects}

(* The kinds of value that column c has in some object or other. *)
ValuesOf(c, objects) ==
    {objects[i].columns[c] : i \in {j \in DOMAIN objects : c \in DOMAIN objects[j].columns}}

(* A null tells nothing of a column's type: one that is null throughout is *)
(* of type Null.  Columns with numbers and texts are texts.                *)
TypeOf(c, objects) ==
    LET types == ValuesOf(c, objects) \ {Null}
    IN  IF types = {} THEN Null
        ELSE IF types = {"int"} THEN "int"
        ELSE IF types \subseteq Numbers THEN "float" ELSE "text"

Infers(samples) ==
    /\ \E i \in DOMAIN samples : samples[i] # Tombstone
    /\ \A i \in DOMAIN samples :
         Reaches(samples, Len(samples), i) => samples[i].valid /\ samples[i].perLine

InferSchema(samples) ==
    LET seen == First(Len(samples), Objects(samples))
    IN  [c \in Columns(seen) |-> TypeOf(c, seen)]

-----------------------------------------------------------------------------
(* decode_batch *)

(* The decoder takes as many objects as there are payloads and leaves the  *)
(* rest unread.                                                            *)
Taken(payloads) == First(Len(payloads), Objects(payloads))

(* Any column takes a null, and a column of numbers any number: one of     *)
(* integers cuts off the fraction.                                         *)
Fits(object, schema) ==
    \A c \in DOMAIN object.columns \cap DOMAIN schema :
        \/ object.columns[c] \in {Null, schema[c]}
        \/ {object.columns[c], schema[c]} \subseteq Numbers

Decodes(payloads, schema) ==
    /\ Taken(payloads) # <<>>
    /\ \A i \in DOMAIN payloads : Reaches(payloads, Len(payloads), i) => payloads[i].valid
    /\ \A i \in DOMAIN Taken(payloads) : Fits(Taken(payloads)[i], schema)

Row(object, schema) ==
    [id |-> object.id,
     cells |-> [c \in DOMAIN schema |->
        IF c \notin DOMAIN object.columns \/ object.columns[c] = Null THEN Null ELSE schema[c]]]

DecodeBatch(payloads, schema) ==
    [i \in DOMAIN Taken(payloads) |-> Row(Taken(payloads)[i], schema)]

-----------------------------------------------------------------------------
(* What payloads have to be like for a schema to suit them all. *)

(* A record that is one object on one line, or a tombstone. *)
OneLine(p) == p.valid /\ p.perLine /\ Len(p.objects) <= 1

(* No column has values that no one type has. *)
Agree(objects) ==
    \A c \in Columns(objects) : \A v, w \in ValuesOf(c, objects) \ {Null} :
        v = w \/ {v, w} \subseteq Numbers

(* The first n records tell the type of every column that they name and    *)
(* that a later record has a value in, and are not all tombstones.         *)
Tell(n, payloads) ==
    LET seen == Objects(SubSeq(payloads, 1, n))
    IN  /\ \E i \in 1 .. n : payloads[i] # Tombstone
        /\ \A c \in Columns(seen) :
             ValuesOf(c, seen) = {Null} => ValuesOf(c, Objects(payloads)) = {Null}
=============================================================================

--------------------------------- MODULE Nbt ---------------------------------
(***************************************************************************)
(* NBT_Value (nbt.cpp): trees of typed values, how they are written to a   *)
(* buffer and read back, and the conversions Map relies on for level.dat   *)
(* and the chunks.  Reading is guarded by a count of remaining bytes, which *)
(* the callers may set too high or too low: it is a parameter.             *)
(* A byte is a number; a number of w bytes keeps its last one only, as no  *)
(* value here is larger.                                                   *)
(***************************************************************************)
EXTENDS Integers, Sequences, SequencesExt

CONSTANT ShortMax    \* lengths of strings from here on are negative (2^15)

END == 0
SIMPLE == 1..6              \* BYTE, SHORT, INT, LONG, FLOAT, DOUBLE
BYTE_ARRAY == 7
TEXT == 8
LIST == 9
COMPOUND == 10
INT_ARRAY == 11

Width == <<1, 2, 4, 8, 4, 8>>

Simple(tag, n) == [tag |-> tag, num |-> n]
Flat(tag, s) == [tag |-> tag, elems |-> s]       \* arrays and strings
ListOf(type, items) == [tag |-> LIST, type |-> type, items |-> items]
Compound(entries) == [tag |-> COMPOUND, entries |-> entries]   \* sorted by key
Tag(tag) == [tag |-> tag]      \* the data of a value cut short is not set

-----------------------------------------------------------------------------
(* Writing *)

Bytes(n, w) == [i \in 1..w |-> IF i = w THEN n ELSE 0]

Int16(n) == ((n + ShortMax) % (2 * ShortMax)) - ShortMax

StringHead(s) == Bytes(Int16(Len(s)), 2)

\* Faulty: no end tag after the last entry.
NoEnd == <<>>
EndOfCompound == <<END>>

RECURSIVE Write(_)
Write(v) ==
    CASE v.tag \in SIMPLE -> Bytes(v.num, Width[v.tag])
      [] v.tag = BYTE_ARRAY -> Bytes(Len(v.elems), 4) \o v.elems
      [] v.tag = INT_ARRAY ->
           Bytes(Len(v.elems), 4)
             \o FlattenSeq([i \in DOMAIN v.elems |-> Bytes(v.elems[i], 4)])
      [] v.tag = TEXT -> StringHead(v.elems) \o v.elems
      [] v.tag = LIST ->
           <<v.type>> \o Bytes(Len(v.items), 4)
             \o FlattenSeq([i \in DOMAIN v.items |-> Write(v.items[i])])
      [] v.tag = COMPOUND ->
           FlattenSeq([i \in DOMAIN v.entries |->
               LET e == v.entries[i] IN
               <<e.val.tag>> \o StringHead(e.key) \o e.key \o Write(e.val)])
             \o EndOfCompound
      [] OTHER -> <<>>

-----------------------------------------------------------------------------
(* Reading: at is the number of bytes consumed, left is `remaining` *)

Result(v, at, left) == [val |-> v, at |-> at, left |-> left]

Peek(buf, at, w) == buf[at + w]      \* the last byte of a number

Remains(left) == left >= 0

\* A length, and then the elements of w bytes each.  `remaining` goes down by
\* one for each element, whatever its width: too little for an int array.
ReadFlat(tag, head, w, buf, at, left) ==
    LET n == Peek(buf, at, head)
        left1 == left - head
        left2 == left1 - n
    IN
    IF ~Remains(left1) THEN Result(Tag(tag), at, left1)
    ELSE IF ~Remains(left2) THEN Result(Tag(tag), at + head, left2)
    ELSE Result(Flat(tag, [i \in 1..n |-> buf[at + head + w * i]]),
              at + head + w * n, left2)

RECURSIVE ReadValue(_, _, _, _), ReadItems(_, _, _, _, _), ReadEntries(_, _, _)

ReadItems(type, n, buf, at, left) ==
    IF n = 0 THEN Result(<<>>, at, left)
    ELSE LET first == ReadValue(type, buf, at, left)
             rest == ReadItems(type, n - 1, buf, first.at, first.left)
         IN  Result(<<first.val>> \o rest.val, rest.at, rest.left)

\* The entries up to the end tag, or to where too little remains.
ReadEntries(buf, at, left) ==
    IF left <= 0 THEN Result(<<>>, at, left)
    ELSE IF buf[at + 1] = END THEN Result(<<>>, at + 1, left - 1)
    ELSE IF left - 3 <= 0 THEN Result(<<>>, at + 1, left - 3)
    ELSE LET n == Peek(buf, at + 1, 2) IN
         IF left - 3 - n <= 0 THEN Result(<<>>, at + 3, left - 3 - n)
         ELSE LET key == SubSeq(buf, at + 4, at + 3 + n)
                  v == ReadValue(buf[at + 1], buf, at + 3 + n, left - 3 - n)
                  rest == ReadEntries(buf, v.at, v.left)
              IN  Result(<<[key |-> key, val |-> v.val]>> \o rest.val,
                       rest.at, rest.left)

ReadValue(tag, buf, at, left) ==
    CASE tag \in SIMPLE ->
           IF Remains(left - Width[tag])
           THEN Result(Simple(tag, Peek(buf, at, Width[tag])),
                     at + Width[tag], left - Width[tag])
           ELSE Result(Tag(tag), at, left - Width[tag])
      [] tag = TEXT -> ReadFlat(tag, 2, 1, buf, at, left)
      [] tag = BYTE_ARRAY -> ReadFlat(tag, 4, 1, buf, at, left)
      [] tag = INT_ARRAY -> ReadFlat(tag, 4, 4, buf, at, left)
      [] tag = LIST ->
           IF ~Remains(left - 5) THEN Result(Tag(tag), at, left - 5)
           ELSE LET items == ReadItems(buf[at + 1], Peek(buf, at, 5), buf,
                                       at + 5, left - 5)
                IN  Result(ListOf(buf[at + 1], items.val), items.at, items.left)
      [] tag = COMPOUND ->
           LET entries == ReadEntries(buf, at, left)
           IN  Result(Compound(entries.val), entries.at, entries.left)
      [] OTHER -> Result(Tag(tag), at, left)

-----------------------------------------------------------------------------
(* Files and entries *)

\* A blank compound tag, the tree, and three bytes more.
Serialized(v) == <<COMPOUND, 0, 0>> \o Write(v) \o <<0, 0, 0>>

\* After the blank tag the whole buffer counts as remaining; it is `spare`
\* bytes longer than its contents (LoadFromMemory, where `spare` is large;
\* in LoadFromFile it is 0).
Parsed(buf, spare) == ReadValue(COMPOUND, buf, 3, Len(buf) + spare).val

\* The value of a key that a compound has (operator[]).
ValueAt(c, key) ==
    c.entries[CHOOSE i \in DOMAIN c.entries : c.entries[i].key = key].val

\* Keys are in the order of std::string.
KeyBefore(k, l) == k # l /\ (IsPrefix(k, l) \/ \E i \in DOMAIN k \cap DOMAIN l :
    k[i] < l[i] /\ SubSeq(k, 1, i - 1) = SubSeq(l, 1, i - 1))

\* Insert: the value replaces the one the key had.
Insert(c, key, v) ==
    Compound(SortSeq(Append(SelectSeq(c.entries, LAMBDA e : e.key # key),
                            [key |-> key, val |-> v]),
                     LAMBDA a, b : KeyBefore(a.key, b.key)))

\* The conversion to a number of a type: 0 for a value of any other type.
NumberOf(tag, v) == IF v.tag = tag THEN v.num ELSE 0

\* Assigning a number gives the value the number's type.
Assigned(tag, n) == Simple(tag, n)
=============================================================================

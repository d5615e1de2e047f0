------------------------------ MODULE ChunkStore ------------------------------
(***************************************************************************)
(* The chunks of a map in memory and in the region files (map.cpp), and    *)
(* the tile entities that belong to their blocks: sChunk keeps signs,      *)
(* chests and furnaces in lists of its own and the chunk's NBT keeps a     *)
(* TileEntities list.  One place per chunk may hold such a block.          *)
(* The file keeps the last chunk written (RegionFile.tla shows when it     *)
(* does) and refuses a chunk that has become too large.                    *)
(***************************************************************************)
EXTENDS Naturals, Sequences, FiniteSetsExt

CONSTANTS
    StoreChunk,     \* chunks of a map
    MaxEdits,       \* edits of a tile entity (bound)
    EntryLimit,     \* entries that fit into 255 sectors
    SaveUnchanged,  \* map.save_unchanged_chunks
    NoData          \* no tile entity, no chunk

ASSUME StoreAssumption ==
    /\ MaxEdits \in Nat /\ EntryLimit \in Nat /\ SaveUnchanged \in BOOLEAN

Kind == {"sign", "chest", "furnace"}
Tile == {"air", "burning"} \union Kind

NoEntities == [k \in Kind |-> NoData]
Entry(k, data) == [kind |-> k, data |-> data]

\* An entry of the TileEntities list, sChunk, and what the file has of it.
TileEntity == [kind : Kind, data : Nat]
MapChunk == [tile : Tile, entities : [Kind -> Nat \union {NoData}],
             list : Seq(TileEntity), changed : BOOLEAN, used : BOOLEAN]
Stored == [tile : Tile, entries : Seq(TileEntity)]

ASSUME NoDataAssumption == NoData \notin Nat \union MapChunk \union Stored

VARIABLES
    memory,   \* sChunk, or NoData for a chunk that is not loaded
    file,     \* what is stored of each chunk, or NoData
    edits,    \* number of edits so far; the newest contents are called this
    past      \* history: newest tile and chest, and what became of the chunk

storeVars == <<memory, file, edits, past>>

StoreInit ==
    /\ memory = [c \in StoreChunk |-> NoData]
    /\ file = [c \in StoreChunk |-> NoData]
    /\ edits = 0
    /\ past = [c \in StoreChunk |->
                  [tile |-> "air", chest |-> NoData, lost |-> FALSE,
                   saves |-> 0, stale |-> FALSE]]

-----------------------------------------------------------------------------
(* Loading *)

\* A chunk that is not in a file is generated, with an empty entity list.
Generated ==
    [tile |-> "air", entities |-> NoEntities, list |-> <<>>,
     changed |-> SaveUnchanged, used |-> TRUE]

\* The block an entity needs; a burning furnace does not count.
BlockIs(k, tile) == k = tile

\* Of several entries for one place the first is taken ("Check for duplicates").
Chosen(entries, k) ==
    LET of == {i \in DOMAIN entries : entries[i].kind = k}
    IN  IF of = {} THEN NoData ELSE entries[Min(of)].data

\* The list is emptied once its entries are in the chunk's own lists.
FromFile(f) ==
    [tile |-> f.tile,
     entities |-> [k \in Kind |->
                      IF BlockIs(k, f.tile) THEN Chosen(f.entries, k) ELSE NoData],
     list |-> <<>>, changed |-> FALSE, used |-> TRUE]

LoadMap(c) ==
    /\ memory[c] = NoData
    /\ LET m == IF file[c] = NoData THEN Generated ELSE FromFile(file[c]) IN
       /\ memory' = [memory EXCEPT ![c] = m]
       /\ past' = [past EXCEPT ![c] =
             [tile |-> m.tile,
              chest |-> IF m.tile = "chest" THEN m.entities["chest"] ELSE NoData,
              lost |-> FALSE, saves |-> 0, stale |-> FALSE]]
    /\ UNCHANGED <<file, edits>>

-----------------------------------------------------------------------------
(* Changes of a loaded chunk *)

Loaded(c) == memory[c] # NoData

\* setBlock marks the chunk as changed and used.
WithBlock(m, tile) == [m EXCEPT !.tile = tile, !.changed = TRUE, !.used = TRUE]

\* Placing a chest makes an empty chestData; the others get theirs on use.
PlaceTile(c, k) ==
    /\ Loaded(c) /\ memory[c].tile = "air"
    /\ LET m == WithBlock(memory[c], k)
       IN  memory' = [memory EXCEPT ![c] = IF k = "chest"
                         THEN [m EXCEPT !.entities["chest"] = 0] ELSE m]
    /\ past' = [past EXCEPT ![c].tile = k,
                            ![c].chest = IF k = "chest" THEN 0 ELSE NoData,
                            ![c].stale = @ \/ past[c].saves > 0]
    /\ UNCHANGED <<file, edits>>

\* The data of a chest and of a furnace go with the block.  BlockSign::onBroken
\* looks for the sign in the chunk whose COORDINATES are those of the block, so
\* the text stays.
BreakTile(c) ==
    /\ Loaded(c) /\ memory[c].tile # "air"
    /\ LET m == WithBlock(memory[c], "air")
       IN  memory' = [memory EXCEPT ![c] =
               IF memory[c].tile = "chest" THEN [m EXCEPT !.entities["chest"] = NoData]
               ELSE IF memory[c].tile \in {"furnace", "burning"}
                    THEN [m EXCEPT !.entities["furnace"] = NoData]
               ELSE m]
    /\ past' = [past EXCEPT ![c].tile = "air", ![c].chest = NoData,
                            ![c].stale = @ \/ past[c].saves > 0]
    /\ UNCHANGED <<file, edits>>

\* Faulty: the click forgets the flag.
ClickedClean(m, k, n) == [m EXCEPT !.entities[k] = n]

\* A click in the window of a chest or a furnace sets `changed` first.
Clicked(m, k, n) == [m EXCEPT !.entities[k] = n, !.changed = TRUE]

Click(c, k) ==
    /\ Loaded(c) /\ edits < MaxEdits
    /\ k \in {"chest", "furnace"}
    /\ memory[c].tile \in {k} \union (IF k = "furnace" THEN {"burning"} ELSE {})
    /\ edits' = edits + 1
    /\ memory' = [memory EXCEPT ![c] = Clicked(@, k, edits')]
    /\ past' = [past EXCEPT ![c].chest = IF k = "chest" THEN edits' ELSE @,
                            ![c].stale = @ \/ (k = "chest" /\ past[c].saves > 0)]
    /\ UNCHANGED file

\* update_sign: the new text, whatever the block; `changed` is left alone.
UpdateSign(c) ==
    /\ Loaded(c) /\ edits < MaxEdits
    /\ edits' = edits + 1
    /\ memory' = [memory EXCEPT ![c].entities["sign"] = edits']
    /\ UNCHANGED <<file, past>>

\* Furnace::updateBlock: the fire goes on or out.
FlipFurnace(c) ==
    /\ Loaded(c) /\ memory[c].tile \in {"furnace", "burning"}
    /\ LET tile == IF memory[c].tile = "furnace" THEN "burning" ELSE "furnace" IN
       /\ memory' = [memory EXCEPT ![c] = WithBlock(@, tile)]
       /\ past' = [past EXCEPT ![c].tile = tile]
    /\ UNCHANGED <<file, edits>>

-----------------------------------------------------------------------------
(* Saving *)

\* The entries of the chunk's own lists, one kind after the other.
EntriesOf(m, k) ==
    IF m.entities[k] = NoData THEN <<>> ELSE <<Entry(k, m.entities[k])>>
NewEntries(m) ==
    EntriesOf(m, "sign") \o EntriesOf(m, "chest") \o EntriesOf(m, "furnace")

\* The entries of this save come after those of every save before it, as long
\* as the chunk stays loaded.
Listed(m) == m.list \o NewEntries(m)

\* Faulty: a chunk counts as saved although it was not looked at.
NeedsSaveNever(m) == m.changed /\ m.used
NeedsSave(m) == m.changed

\* saveMap.  That writeChunk refused the chunk goes unnoticed: `changed` is
\* reset all the same.
AfterSave(m) == IF NeedsSave(m) THEN [m EXCEPT !.list = Listed(m), !.changed = FALSE]
            ELSE m

FileAfter(m, f) ==
    IF ~NeedsSave(m) \/ Len(Listed(m)) > EntryLimit THEN f
    ELSE [tile |-> m.tile, entries |-> Listed(m)]

\* The bookkeeping of a save.
PastSave(m, p) ==
    IF ~NeedsSave(m) THEN p
    ELSE [p EXCEPT !.lost = (Len(Listed(m)) > EntryLimit), !.saves = 1]

\* Bound: a list that was too long for the file is not made longer.
ShortList(c) == Loaded(c) => Len(memory[c].list) <= EntryLimit

SaveMap(c) ==
    /\ Loaded(c) /\ ShortList(c)
    /\ memory' = [memory EXCEPT ![c] = AfterSave(@)]
    /\ file' = [file EXCEPT ![c] = FileAfter(memory[c], @)]
    /\ past' = [past EXCEPT ![c] = PastSave(memory[c], @)]
    /\ UNCHANGED edits

\* saveWholeMap, on the interval of timed_10s and when the server stops.
SaveWholeMap ==
    /\ \A c \in StoreChunk : ShortList(c)
    /\ memory' = [c \in StoreChunk |->
                     IF Loaded(c) THEN AfterSave(memory[c]) ELSE NoData]
    /\ file' = [c \in StoreChunk |->
                   IF Loaded(c) THEN FileAfter(memory[c], file[c]) ELSE file[c]]
    /\ past' = [c \in StoreChunk |->
                   IF Loaded(c) THEN PastSave(memory[c], past[c]) ELSE past[c]]
    /\ UNCHANGED edits

\* A minute without getBlock or setBlock.
Rest(c) ==
    /\ Loaded(c) /\ memory[c].used
    /\ memory' = [memory EXCEPT ![c].used = FALSE]
    /\ UNCHANGED <<file, edits, past>>

\* timed_10s releases a chunk nobody used or viewed: saved first, then freed.
\* The destructor of Map releases them all.
ReleaseMap(c) ==
    /\ Loaded(c) /\ ~memory[c].used
    /\ memory' = [memory EXCEPT ![c] = NoData]
    /\ file' = [file EXCEPT ![c] = FileAfter(memory[c], @)]
    /\ past' = [past EXCEPT ![c] = PastSave(memory[c], @)]
    /\ UNCHANGED edits

\* The process dies: memory is gone.
Die ==
    /\ memory' = [c \in StoreChunk |-> NoData]
    /\ past' = [c \in StoreChunk |->
                   IF Loaded(c) THEN [past[c] EXCEPT !.lost = TRUE] ELSE past[c]]
    /\ UNCHANGED <<file, edits>>

StoreNext ==
    \/ \E c \in StoreChunk :
         \/ LoadMap(c) \/ BreakTile(c) \/ UpdateSign(c) \/ FlipFurnace(c)
         \/ SaveMap(c) \/ Rest(c) \/ ReleaseMap(c)
         \/ \E k \in Kind : PlaceTile(c, k) \/ Click(c, k)
    \/ SaveWholeMap \/ Die

StoreSpec == StoreInit /\ [][StoreNext]_storeVars

-----------------------------------------------------------------------------
(* Properties *)

TileOf(f) == IF f = NoData THEN "air" ELSE f.tile
ChestOf(f) == IF f = NoData \/ f.tile # "chest" THEN NoData
              ELSE Chosen(f.entries, "chest")

\* The blocks of a chunk survive its release and are in the file whenever the
\* chunk is not marked as changed, unless the server died or the file refused
\* the chunk: `changed` misses no change of a block.
BlocksAreKept ==
    \A c \in StoreChunk :
        (~past[c].lost /\ (~Loaded(c) \/ ~memory[c].changed))
            => TileOf(file[c]) = past[c].tile

\* What a chest held is in the file as the entry that loading will take, as
\* long as it was not used after the first save since the chunk was loaded.
ChestIsKept ==
    \A c \in StoreChunk :
        (~past[c].lost /\ ~past[c].stale /\ (~Loaded(c) \/ ~memory[c].changed))
            => ChestOf(file[c]) = past[c].chest

=============================================================================

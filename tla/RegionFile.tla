------------------------------ MODULE RegionFile ------------------------------
(***************************************************************************)
(* One region file (mcregion.cpp): a table of offsets in sector 0, one of  *)
(* timestamps in sector 1 and the chunks in the sectors after them.  Map   *)
(* opens the file for each save and each load and closes it afterwards, so *)
(* the list of free sectors is rebuilt every time.  The writes of a save   *)
(* reach the disk one after the other and the server may die between two   *)
(* of them; with Torn it may die inside one, as the file grows.            *)
(***************************************************************************)
EXTENDS Integers, Sequences, FiniteSets

CONSTANTS
    RegionChunk,   \* the chunks of the region
    MaxSectors,    \* the file is at most this long (bound)
    MaxSaves,      \* number of saves (bound)
    SectorLimit,   \* first number of sectors that writeChunk refuses (256)
    Torn,          \* may a crash leave a part of a sector?
    Unread         \* what reading returns for a chunk that is not there

ASSUME RegionAssumption ==
    /\ IsFiniteSet(RegionChunk)
    /\ MaxSectors \in Nat /\ MaxSaves \in Nat /\ SectorLimit \in Nat \ {0}
    /\ Torn \in BOOLEAN
    /\ Unread \notin RegionChunk

\* The n-th save, of chunk c, that fills `need` sectors.
Saved == [chunk : RegionChunk, n : 1..MaxSaves, need : 1..SectorLimit]

ASSUME UnreadAssumption == Unread \notin Saved

Nowhere == <<0, 0>>       \* offset 0: the chunk is not in the file
Zeros == [save |-> Unread, part |-> 0]
Header == [save |-> Unread, part |-> 1]   \* a sector of one of the two tables
Sector(save, part) == [save |-> save, part |-> part]

VARIABLES
    offset,    \* the offset table on disk: first sector and number of sectors
    sector,    \* the sectors; sector number s is sector[s + 1]
    ragged,    \* bytes of an incomplete sector follow
    job,       \* the save that runs, or Idle
    regionSaves  \* how many saves were begun

regionDisk == <<offset, sector, ragged>>
regionVars == <<regionDisk, job, regionSaves>>

Idle == [chunk |-> Unread]

RegionInit ==
    /\ offset = [c \in RegionChunk |-> Nowhere]
    /\ sector = <<>>
    /\ ragged = FALSE
    /\ job = Idle
    /\ regionSaves = 0

-----------------------------------------------------------------------------
(* Opening and reading *)

SectorCount == Len(sector)

InFile(o) == o[1] + o[2] <= SectorCount

SectorsAt(o) == o[1] .. (o[1] + o[2] - 1)

\* sectorFree as openFile computes it: entries that reach beyond the file
\* reserve nothing.
FreeSectors ==
    {s \in 2..(SectorCount - 1) :
        \A c \in RegionChunk : InFile(offset[c]) => s \notin SectorsAt(offset[c])}

\* What readChunk and LoadFromMemory get for a chunk: a length that does not
\* fit, or parts of different saves (they do not inflate), read as nothing.
ReadChunk(c) ==
    LET o == offset[c] IN
    IF o = Nowhere \/ ~InFile(o) THEN Unread
    ELSE LET save == sector[o[1] + 1].save IN
         IF /\ save # Unread
            /\ save.need <= o[2]
            /\ \A i \in 1..save.need : sector[o[1] + i] = Sector(save, i)
         THEN save ELSE Unread

\* A new file gets its two tables.  In a file whose length is no multiple of
\* the sector size zeros are written from the START of the file, over the
\* offsets of the first chunks: how many depends on the odd bytes.
Wiped == IF ragged THEN SUBSET RegionChunk ELSE {{}}

OpenFile ==
    IF SectorCount = 0
    THEN /\ sector' = <<Header, Header>>
         /\ UNCHANGED <<offset, ragged>>
    ELSE /\ \E w \in Wiped :
                offset' = [c \in RegionChunk |->
                               IF c \in w THEN Nowhere ELSE offset[c]]
         /\ UNCHANGED <<sector, ragged>>

-----------------------------------------------------------------------------
(* Writing: the steps that remain of a save are in job.todo *)

Run(first, n) == first .. (first + n - 1)

\* Faulty: a run is taken when its first sector is free.
FitsFirst(s, n, free) == s \in free /\ s + n <= SectorCount
Fits(s, n, free) == Run(s, n) \subseteq free

\* The first run of free sectors that is long enough; past the end of the file
\* when there is none.
Place(n, free) ==
    LET fits == {s \in free : Fits(s, n, free)}
    IN  IF fits = {} THEN SectorCount
        ELSE CHOOSE s \in fits : \A t \in fits : s <= t

\* The order of the writes of each of the three ways to save.
Rewrite == <<"data", "stamp">>
Reuse   == <<"offset", "data", "stamp">>
Grow    == <<"grow", "data", "offset", "stamp">>

\* Faulty: the sectors of the old version are not looked at before rewriting.
SameStart(o, need) == o # Nowhere
Same(o, need) == o # Nowhere /\ o[2] = need

\* A chunk has at most 255 sectors, as its number of sectors is one byte.
Refused(need) == need >= SectorLimit

\* Map::saveMap opens the file and calls writeChunk, which decides.
BeginSave(c, need) ==
    LET save == [chunk |-> c, n |-> regionSaves + 1, need |-> need] IN
    /\ job = Idle
    /\ regionSaves < MaxSaves
    /\ OpenFile
    /\ job' = [chunk |-> c, save |-> save, at |-> 0, before |-> ReadChunk(c),
               todo |-> IF Refused(need) THEN <<>> ELSE <<"find">>]
    /\ regionSaves' = regionSaves + 1

FindSectors ==
    LET c == job.chunk
        need == job.save.need
        own == IF InFile(offset[c]) THEN SectorsAt(offset[c]) ELSE {}
        at == Place(need, FreeSectors \union (own \ {0, 1}))
    IN
    /\ job # Idle /\ job.todo = <<"find">>
    /\ job' = IF Same(offset[c], need)
              THEN [job EXCEPT !.at = offset[c][1], !.todo = Rewrite]
              ELSE [job EXCEPT !.at = at,
                               !.todo = IF at < SectorCount THEN Reuse ELSE Grow]
    /\ job'.at + need <= MaxSectors
    /\ UNCHANGED <<regionDisk, regionSaves>>

Doing(step) == job # Idle /\ job.todo # <<>> /\ Head(job.todo) = step
Done == job' = [job EXCEPT !.todo = Tail(@)]

\* Sectors of the file after `parts` sectors of the save are written at `at`.
Written(parts) ==
    [i \in 1..(IF job.at + parts > SectorCount THEN job.at + parts ELSE SectorCount) |->
        IF i \in (job.at + 1) .. (job.at + parts)
        THEN Sector(job.save, i - job.at) ELSE sector[i]]

GrowFile ==
    /\ Doing("grow")
    /\ sector' = sector \o [i \in 1..job.save.need |-> Zeros]
    /\ Done
    /\ UNCHANGED <<offset, ragged, regionSaves>>

WriteData ==
    /\ Doing("data")
    /\ sector' = Written(job.save.need)
    /\ Done
    /\ UNCHANGED <<offset, ragged, regionSaves>>

SetOffset ==
    /\ Doing("offset")
    /\ offset' = [offset EXCEPT ![job.chunk] = <<job.at, job.save.need>>]
    /\ Done
    /\ UNCHANGED <<sector, ragged, regionSaves>>

\* The timestamps are in sector 1, whatever else may have been put there.
SetTimestamp ==
    /\ Doing("stamp")
    /\ sector' = [sector EXCEPT ![2] = Header]
    /\ Done
    /\ UNCHANGED <<offset, ragged, regionSaves>>

\* The file is closed.  A chunk that was too large has not been written.
EndSave ==
    /\ job # Idle /\ job.todo = <<>>
    /\ job' = Idle
    /\ UNCHANGED <<regionDisk, regionSaves>>

-----------------------------------------------------------------------------
(* Loading and crashing *)

\* Map::loadMap opens the file, which may create or damage it, and reads.
LoadChunk ==
    /\ job = Idle
    /\ OpenFile
    /\ UNCHANGED <<job, regionSaves>>

\* The process dies between two writes, or after some sectors of the data.
Crash ==
    /\ job # Idle
    /\ \/ UNCHANGED regionDisk
       \/ /\ Doing("data")
          /\ \E parts \in 1..(job.save.need - 1) : sector' = Written(parts)
          /\ UNCHANGED <<offset, ragged>>
       \/ /\ Doing("grow")
          /\ \E parts \in 0..(job.save.need - 1) :
                /\ sector' = sector \o [i \in 1..parts |-> Zeros]
                /\ ragged' = (ragged \/ Torn)
          /\ UNCHANGED offset
    /\ job' = Idle
    /\ UNCHANGED regionSaves

\* Between the flushes of the two tables of a new file.
CrashCreating ==
    /\ job = Idle /\ SectorCount = 0
    /\ sector' = <<Header>>
    /\ UNCHANGED <<offset, ragged, job, regionSaves>>

RegionNext ==
    \/ \E c \in RegionChunk, need \in 1..SectorLimit : BeginSave(c, need)
    \/ FindSectors \/ GrowFile \/ WriteData \/ SetOffset \/ SetTimestamp
    \/ EndSave \/ LoadChunk \/ Crash

RegionSpec == RegionInit /\ [][RegionNext]_regionVars

\* With a file system that may leave incomplete sectors.
TornSpec == RegionInit /\ [][RegionNext \/ CrashCreating]_regionVars

-----------------------------------------------------------------------------
(* Properties *)

\* No sector belongs to two chunks or to a table, at any moment of a save, so
\* that openFile may rebuild the list of free sectors from the table alone.
NoSharedSectors ==
    \A c, d \in RegionChunk :
        /\ offset[c] # Nowhere => offset[c][1] >= 2 /\ InFile(offset[c])
        /\ c # d => SectorsAt(offset[c]) \intersect SectorsAt(offset[d]) = {}

\* The file implements the store of chunks that ChunkFile.tla describes; while
\* a save runs the chunk counts as it was before.
Promise == INSTANCE ChunkFile WITH
    Chunk <- RegionChunk, Version <- Saved, Nothing <- Unread,
    Refuse <- {v \in Saved : Refused(v.need)},
    saving <- IF job = Idle THEN Unread ELSE job.save,
    stored <- [c \in RegionChunk |->
                  IF job.chunk = c THEN job.before ELSE ReadChunk(c)]
ImplementsChunkFile == Promise!FileSpec

\* What the comment "If not multiple of 4096, expand" (mcregion.cpp:162) says
\* of opening a file: it may grow it, but only a save changes the table.
OpenKeepsTable ==
    [][\A c \in RegionChunk : offset'[c] # offset[c] => job.chunk = c]_regionVars

=============================================================================

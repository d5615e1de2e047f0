----------------------------- MODULE StoreProofs -----------------------------
(* Theorems about what is kept on disk. The first half is about RegionFile,
   for every number of chunks, sectors and saves; the second about ChunkStore:
   blocks and chests that were in memory are in the file when the chunk is
   released, however the chunk is loaded, changed, saved and released.       *)
EXTENDS RegionFile, ChunkStore, NumberFacts

-----------------------------------------------------------------------------
(* The inductive invariant *)

SectorType == [save : Saved \cup {Unread}, part : Nat]

\* What may remain of a save, whichever way it is done.
Todo ==
    {<<>>, <<"find">>, Grow, Reuse, Rewrite, <<"data", "offset", "stamp">>,
     <<"offset", "stamp">>, <<"stamp">>}

Job == [chunk : RegionChunk, save : Saved, at : Nat,
        before : Saved \cup {Unread}, todo : Todo]

RegionTypes ==
    /\ offset \in [RegionChunk -> Nat \X Nat]
    /\ sector \in Seq(SectorType)
    /\ ragged \in BOOLEAN
    /\ job \in Job \cup {Idle}
    /\ regionSaves \in 0 .. MaxSaves

\* The tables are there before anything else is.
TablesFirst ==
    /\ SectorCount = 0 \/ SectorCount >= 2
    /\ job # Idle => SectorCount >= 2 /\ job.save.chunk = job.chunk
    /\ ragged => Torn

\* An entry of the offset table is empty, or sectors of the file.
EntriesInFile ==
    \A c \in RegionChunk : offset[c] # Nowhere =>
        offset[c][1] >= 2 /\ offset[c][2] >= 1 /\ InFile(offset[c])

EntriesApart ==
    \A c, d \in RegionChunk :
        c # d => SectorsAt(offset[c]) \intersect SectorsAt(offset[d]) = {}

\* A save that has found its sectors.
Placed == job # Idle /\ job.todo # <<"find">> /\ ~Refused(job.save.need)

\* The sectors a save writes to are nobody else's; they are in the file once
\* it has grown; and the entry points at them unless it is still to be set.
RunIsOwn ==
    Placed =>
        /\ job.at >= 2
        /\ \A d \in RegionChunk \ {job.chunk} :
               Run(job.at, job.save.need) \intersect SectorsAt(offset[d]) = {}
        /\ IF job.todo = Grow THEN job.at = SectorCount
                              ELSE job.at + job.save.need <= SectorCount
        /\ job.todo \in {Rewrite, <<"stamp">>, <<>>}
               => offset[job.chunk] = <<job.at, job.save.need>>

\* Once the data is written it stays.
DataIsThere ==
    Placed /\ job.todo \in {<<"offset", "stamp">>, <<"stamp">>, <<>>} =>
        \A i \in 1 .. job.save.need : sector[job.at + i] = Sector(job.save, i)

\* A save that is refused does nothing, but for what opening a torn file does.
RefusedIsIdle ==
    job # Idle /\ Refused(job.save.need) =>
        job.todo = <<>> /\ (Torn \/ ReadChunk(job.chunk) = job.before)

RegionIInv ==
    /\ RegionTypes
    /\ TablesFirst
    /\ EntriesInFile
    /\ EntriesApart
    /\ RunIsOwn
    /\ DataIsThere
    /\ RefusedIsIdle

-----------------------------------------------------------------------------
(* Lemmas about the operators *)

(* The least run of free sectors, or the end of the file.  *)
LEMMA PlaceFound ==
    ASSUME SectorCount \in Nat, NEW n \in Nat \ {0}, NEW free \in SUBSET Nat
    PROVE  \/ Place(n, free) = SectorCount
           \/ Place(n, free) \in free /\ Run(Place(n, free), n) \subseteq free
  <1> DEFINE fits == {s \in free : Fits(s, n, free)}
  <1>1. CASE fits = {}
    BY <1>1 DEF Place
  <1>2. CASE fits # {}
    <2>1. PICK m \in fits : \A t \in fits : m <= t
      BY <1>2, LeastNatural
    <2>2. Place(n, free) = CHOOSE s \in fits : \A t \in fits : s <= t
      BY <1>2 DEF Place
    <2>3. Place(n, free) \in fits
      BY <2>1, <2>2
    <2>4. QED
      BY <2>3 DEF Fits
  <1>3. QED
    BY <1>1, <1>2

(* Which sectors an entry of the offset table stands for. *)
LEMMA SectorsOfEntry ==
    ASSUME RegionTypes, NEW c \in RegionChunk
    PROVE  /\ offset[c][1] \in Nat /\ offset[c][2] \in Nat
           /\ offset[c] = <<offset[c][1], offset[c][2]>>
           /\ SectorsAt(offset[c]) \in SUBSET Nat
           /\ SectorCount \in Nat
           /\ \A s \in 1 .. SectorCount : sector[s] \in SectorType
  BY DEF RegionTypes, SectorsAt, SectorCount

(* What is read of a chunk is a version that was saved, or nothing. *)
LEMMA ReadType ==
    ASSUME RegionIInv, NEW c \in RegionChunk
    PROVE  ReadChunk(c) \in Saved \cup {Unread}
  <1>1. CASE offset[c] = Nowhere \/ ~InFile(offset[c])
    BY <1>1 DEF ReadChunk
  <1>2. CASE offset[c] # Nowhere /\ InFile(offset[c])
    <2>1. sector[offset[c][1] + 1] \in SectorType
      BY <1>2, SectorsOfEntry DEF RegionIInv, EntriesInFile, InFile
    <2>2. QED
      BY <2>1 DEF ReadChunk, SectorType
  <1>3. QED
    BY <1>1, <1>2

(* Nothing is read but what was saved. *)
ReadsAreSaved == \A c \in RegionChunk : ReadChunk(c) \in Saved \cup {Unread}

(* A chunk reads as before if its entry and its sectors are as before. *)
LEMMA ReadFrame ==
    ASSUME RegionIInv, NEW c \in RegionChunk,
           offset'[c] = offset[c], SectorCount' \in Nat, SectorCount <= SectorCount',
           \A s \in SectorsAt(offset[c]) : sector'[s + 1] = sector[s + 1]
    PROVE  ReadChunk(c)' = ReadChunk(c)
  <1>1. CASE offset[c] = Nowhere
    BY <1>1 DEF ReadChunk
  <1>2. CASE offset[c] # Nowhere
    <2> DEFINE o == offset[c]
    <2>1. /\ o[1] \in Nat /\ o[2] \in Nat /\ o[2] >= 1 /\ o[1] >= 2
          /\ InFile(o) /\ InFile(o)'
      BY <1>2, SectorsOfEntry DEF RegionIInv, EntriesInFile, InFile
    <2>2. \A i \in 1 .. o[2] : sector'[o[1] + i] = sector[o[1] + i]
      <3> TAKE i \in 1 .. o[2]
      <3>1. o[1] + i - 1 \in SectorsAt(o) /\ (o[1] + i - 1) + 1 = o[1] + i
        BY <2>1 DEF SectorsAt
      <3>2. QED
        BY <3>1
    <2> DEFINE save == sector[o[1] + 1].save
    <2>3. sector'[o[1] + 1] = sector[o[1] + 1]
      BY <2>1, <2>2
    <2>4. save \in Saved \cup {Unread}
      BY <1>2, <2>1, SectorsOfEntry DEF RegionIInv, InFile, SectorType
    <2>5. ASSUME save # Unread, save.need <= o[2]
          PROVE  \A i \in 1 .. save.need : sector'[o[1] + i] = sector[o[1] + i]
      BY <2>1, <2>2, <2>4, <2>5 DEF Saved
    <2>6. QED
      BY <1>2, <2>1, <2>3, <2>5 DEF ReadChunk
  <1>3. QED
    BY <1>1, <1>2

(* What a finished save wrote is what is read. *)
LEMMA ReadWritten ==
    ASSUME RegionIInv, Placed, job.todo = <<>>
    PROVE  ReadChunk(job.chunk) = job.save
  <1> DEFINE c == job.chunk  need == job.save.need  at == job.at
  <1>1. /\ job \in Job /\ c \in RegionChunk
        /\ job.save \in Saved /\ need \in Nat /\ need >= 1 /\ at \in Nat
    BY DEF RegionIInv, RegionTypes, Placed, Job, Saved
  <1>2. /\ at >= 2 /\ at + need <= SectorCount /\ offset[c] = <<at, need>>
    BY <1>1 DEF RegionIInv, RunIsOwn, Grow
  <1>3. \A i \in 1 .. need : sector[at + i] = Sector(job.save, i)
    BY <1>1 DEF RegionIInv, DataIsThere
  <1>4. sector[at + 1].save = job.save
    <2>1. 1 \in 1 .. need
      BY <1>1
    <2>2. sector[at + 1] = Sector(job.save, 1)
      BY <1>3, <2>1
    <2>3. QED
      BY <2>2 DEF Sector
  <1>5. offset[c] # Nowhere /\ InFile(offset[c])
    BY <1>1, <1>2 DEF Nowhere, InFile
  <1>6. job.save # Unread
    BY <1>1, UnreadAssumption
  <1>7. QED
    BY <1>1, <1>2, <1>3, <1>4, <1>5, <1>6 DEF ReadChunk

(* What remains of a save when its next write is known. *)
LEMMA NextWrite ==
    ASSUME RegionIInv, job # Idle
    PROVE  /\ Doing("grow") => job.todo = Grow
           /\ Doing("data") => job.todo \in {Rewrite, <<"data", "offset", "stamp">>}
           /\ Doing("offset") => job.todo \in {Reuse, <<"offset", "stamp">>}
           /\ Doing("stamp") => job.todo = <<"stamp">>
  BY DEF RegionIInv, RegionTypes, Job, Todo, Doing, Grow, Reuse, Rewrite

(* What remains of each kind of save, write by write. *)
LEMMA AfterWrite ==
    /\ Tail(Grow) = <<"data", "offset", "stamp">>
    /\ Tail(<<"data", "offset", "stamp">>) = <<"offset", "stamp">>
    /\ Tail(Reuse) = Rewrite
    /\ Tail(Rewrite) = <<"stamp">>
    /\ Tail(<<"offset", "stamp">>) = <<"stamp">>
    /\ Tail(<<"stamp">>) = <<>>
  BY DEF Grow, Reuse, Rewrite

(* No two of the lists of what may remain of a save are the same. *)
LEMMA TodoDiffer ==
    /\ Grow \notin {<<>>, <<"find">>, Reuse, Rewrite, <<"data", "offset", "stamp">>,
                    <<"offset", "stamp">>, <<"stamp">>}
    /\ Reuse \notin {<<>>, <<"find">>, Rewrite, <<"data", "offset", "stamp">>,
                     <<"offset", "stamp">>, <<"stamp">>}
    /\ Rewrite \notin {<<>>, <<"find">>, <<"data", "offset", "stamp">>,
                       <<"offset", "stamp">>, <<"stamp">>}
    /\ <<"data", "offset", "stamp">> \notin {<<>>, <<"find">>, <<"offset", "stamp">>,
                                            <<"stamp">>}
    /\ <<"offset", "stamp">> \notin {<<>>, <<"find">>, <<"stamp">>}
    /\ <<"stamp">> \notin {<<>>, <<"find">>}
  BY DEF Grow, Reuse, Rewrite

-----------------------------------------------------------------------------
(* The invariant: what the steps of a save do to the file *)

(* A file that is not there has no entries. *)
LEMMA RegionInitIInv == RegionInit => RegionIInv
  <1> SUFFICES ASSUME RegionInit PROVE RegionIInv
    OBVIOUS
  <1> USE DEF RegionInit
  <1>1. RegionTypes
    <2>1. offset \in [RegionChunk -> Nat \X Nat]
      BY DEF Nowhere
    <2>2. sector \in Seq(SectorType)
      OBVIOUS
    <2>3. regionSaves \in 0 .. MaxSaves
      BY RegionAssumption
    <2>4. QED
      BY <2>1, <2>2, <2>3 DEF RegionTypes
  <1>2. TablesFirst
    BY DEF TablesFirst, SectorCount
  <1>3. EntriesInFile /\ EntriesApart
    BY DEF EntriesInFile, EntriesApart, SectorsAt, Nowhere
  <1>4. RunIsOwn /\ DataIsThere /\ RefusedIsIdle
    BY DEF RunIsOwn, DataIsThere, RefusedIsIdle, Placed
  <1>5. QED
    BY <1>1, <1>2, <1>3, <1>4 DEF RegionIInv

(* A save that runs has its types, and one with a write to do is placed. *)
LEMMA RunningSave ==
    ASSUME RegionIInv, job # Idle
    PROVE  /\ job \in Job /\ job.chunk \in RegionChunk /\ job.save \in Saved
           /\ job.save.need \in Nat /\ job.save.need >= 1
           /\ job.at \in Nat /\ job.todo \in Todo
           /\ job.save.chunk = job.chunk
           /\ SectorCount \in Nat /\ SectorCount >= 2
           /\ job.todo \notin {<<>>, <<"find">>} => Placed
  <1>1. job \in Job /\ SectorCount \in Nat /\ SectorCount >= 2
    BY DEF RegionIInv, RegionTypes, TablesFirst, SectorCount
  <1>2. job.todo \notin {<<>>, <<"find">>} => Placed
    BY DEF RegionIInv, RefusedIsIdle, Placed
  <1>3. QED
    BY <1>1, <1>2 DEF Job, Saved, RegionIInv, TablesFirst

(* A save under way is not the absence of one. *)
LEMMA JobIsNotIdle == \A j \in Job : j # Idle
  BY RegionAssumption DEF Job, Idle

(* A write takes itself off the list of what remains. *)
LEMMA DoneEffect ==
    ASSUME RegionIInv, job # Idle, Done, Tail(job.todo) \in Todo
    PROVE  /\ job' \in Job /\ job' # Idle
           /\ job'.chunk = job.chunk /\ job'.save = job.save
           /\ job'.at = job.at /\ job'.before = job.before
           /\ job'.todo = Tail(job.todo)
  <1>1. job \in Job
    BY RunningSave
  <1>2. job' = [job EXCEPT !.todo = Tail(job.todo)]
    BY DEF Done
  <1>3. QED
    BY <1>1, <1>2, JobIsNotIdle DEF Job

(* The entries of the table stay good while the file only grows. *)
LEMMA EntriesFrame ==
    ASSUME RegionIInv, offset' = offset, SectorCount' \in Nat, SectorCount <= SectorCount'
    PROVE  EntriesInFile' /\ EntriesApart'
  <1>1. EntriesInFile'
    <2> SUFFICES ASSUME NEW c \in RegionChunk, offset[c] # Nowhere
                 PROVE  offset[c][1] >= 2 /\ offset[c][2] >= 1 /\ InFile(offset[c])'
      BY DEF EntriesInFile, InFile
    <2>1. offset[c][1] >= 2 /\ offset[c][2] >= 1 /\ InFile(offset[c])
      BY DEF RegionIInv, EntriesInFile
    <2>2. QED
      BY <2>1, SectorsOfEntry DEF RegionIInv, InFile
  <1>2. EntriesApart'
    BY DEF RegionIInv, EntriesApart, SectorsAt
  <1>3. QED
    BY <1>1, <1>2

(* The sectors of a placed save's entry after it was set. *)
LEMMA OwnSectors ==
    ASSUME NEW at \in Nat, NEW n \in Nat
    PROVE  SectorsAt(<<at, n>>) = Run(at, n)
  BY DEF SectorsAt, Run

(* Writing data changes the sectors of its run. *)
LEMMA WrittenSectors ==
    ASSUME RegionIInv, job # Idle, Doing("data"), NEW parts \in 1 .. job.save.need
    PROVE  /\ Written(parts) \in Seq(SectorType)
           /\ Len(Written(parts)) = SectorCount
           /\ \A s \in 1 .. SectorCount :
                 Written(parts)[s] = IF s \in (job.at + 1) .. (job.at + parts)
                                     THEN Sector(job.save, s - job.at) ELSE sector[s]
  <1>1. Placed /\ job.todo # Grow
    <2>1. job.todo \in {Rewrite, <<"data", "offset", "stamp">>}
      BY NextWrite
    <2>2. \A todo \in {Rewrite, <<"data", "offset", "stamp">>} :
              todo # <<>> /\ todo # <<"find">> /\ todo # Grow
      BY ONLY DEF Grow, Rewrite
    <2>3. QED
      BY <2>1, <2>2, RunningSave
  <1>2. job.at + parts <= SectorCount /\ job.at \in Nat /\ SectorCount \in Nat
    BY <1>1, RunningSave DEF RegionIInv, RunIsOwn
  <1>3. Written(parts) =
          [s \in 1 .. SectorCount |->
              IF s \in (job.at + 1) .. (job.at + parts)
              THEN Sector(job.save, s - job.at) ELSE sector[s]]
    BY <1>2 DEF Written
  <1>4. \A s \in 1 .. SectorCount : Written(parts)[s] \in SectorType
    <2> TAKE s \in 1 .. SectorCount
    <2>1. CASE s \in (job.at + 1) .. (job.at + parts)
      BY <1>2, <1>3, <2>1, RunningSave DEF Sector, SectorType
    <2>2. CASE s \notin (job.at + 1) .. (job.at + parts)
      BY <1>3, <2>2 DEF RegionIInv, RegionTypes, SectorCount
    <2>3. QED
      BY <2>1, <2>2
  <1>5. Written(parts) \in [1 .. SectorCount -> SectorType]
    BY <1>3, <1>4
  <1>6. QED
    BY <1>2, <1>3, <1>5

(* Zeros at the end change no sector there was. *)
LEMMA GrownSectors ==
    ASSUME RegionIInv, NEW parts \in Nat
    PROVE  LET grown == sector \o [i \in 1 .. parts |-> Zeros] IN
           /\ grown \in Seq(SectorType)
           /\ Len(grown) = SectorCount + parts
           /\ \A s \in 1 .. SectorCount : grown[s] = sector[s]
  <1>1. [i \in 1 .. parts |-> Zeros] \in Seq(SectorType)
    BY DEF Zeros, SectorType
  <1>2. sector \in Seq(SectorType) /\ SectorCount \in Nat
    BY DEF RegionIInv, RegionTypes, SectorCount
  <1>3. QED
    BY <1>1, <1>2 DEF SectorCount

(* Opening a file keeps its sectors, and empties entries at worst. *)
LEMMA OpenEffect ==
    ASSUME RegionIInv, OpenFile
    PROVE  /\ offset' \in [RegionChunk -> Nat \X Nat]
           /\ sector' \in Seq(SectorType)
           /\ ragged' = ragged
           /\ SectorCount' \in Nat /\ SectorCount' >= 2 /\ SectorCount <= SectorCount'
           /\ \A s \in 1 .. SectorCount : sector'[s] = sector[s]
           /\ \A c \in RegionChunk : offset'[c] \in {offset[c], Nowhere}
           /\ Torn \/ offset' = offset
  <1>1. CASE SectorCount = 0
    <2>1. sector' = <<Header, Header>> /\ UNCHANGED <<offset, ragged>>
      BY <1>1 DEF OpenFile
    <2>2. Header \in SectorType
      BY DEF Header, SectorType
    <2>3. QED
      BY <1>1, <2>1, <2>2 DEF RegionIInv, RegionTypes, SectorCount
  <1>2. CASE SectorCount # 0
    <2>1. PICK w \in Wiped :
             offset' = [c \in RegionChunk |-> IF c \in w THEN Nowhere ELSE offset[c]]
      BY <1>2 DEF OpenFile
    <2>2. UNCHANGED <<sector, ragged>>
      BY <1>2 DEF OpenFile
    <2>3. ~Torn => w = {}
      BY DEF RegionIInv, TablesFirst, Wiped
    <2>4. offset' \in [RegionChunk -> Nat \X Nat]
      BY <2>1 DEF RegionIInv, RegionTypes, Nowhere
    <2>5. Torn \/ offset' = offset
      BY <2>1, <2>3 DEF RegionIInv, RegionTypes
    <2>6. QED
      BY <1>2, <2>1, <2>2, <2>4, <2>5 DEF RegionIInv, RegionTypes, SectorCount, TablesFirst
  <1>3. QED
    BY <1>1, <1>2

(* The entries stay good when the file is opened, and without torn sectors so
   does what is read.                                                       *)
LEMMA OpenKeeps ==
    ASSUME RegionIInv, OpenFile
    PROVE  /\ EntriesInFile' /\ EntriesApart'
           /\ Torn \/ \A c \in RegionChunk : ReadChunk(c)' = ReadChunk(c)
  <1>1. SectorsAt(Nowhere) = {}
    BY DEF SectorsAt, Nowhere
  <1>2. EntriesInFile'
    <2> SUFFICES ASSUME NEW c \in RegionChunk, offset'[c] # Nowhere
                 PROVE  offset'[c][1] >= 2 /\ offset'[c][2] >= 1 /\ InFile(offset[c])'
      BY DEF EntriesInFile, InFile
    <2>1. offset'[c] = offset[c]
      BY OpenEffect
    <2>2. offset[c][1] >= 2 /\ offset[c][2] >= 1 /\ InFile(offset[c])
      BY <2>1 DEF RegionIInv, EntriesInFile
    <2>3. offset[c][1] \in Nat /\ offset[c][2] \in Nat /\ SectorCount \in Nat
      BY SectorsOfEntry DEF RegionIInv
    <2>4. SectorCount' \in Nat /\ SectorCount <= SectorCount'
      BY OpenEffect
    <2>5. QED
      BY <2>1, <2>2, <2>3, <2>4 DEF InFile
  <1>3. EntriesApart'
    <2> SUFFICES ASSUME NEW c \in RegionChunk, NEW d \in RegionChunk, c # d
                 PROVE  SectorsAt(offset'[c]) \intersect SectorsAt(offset'[d]) = {}
      BY DEF EntriesApart, SectorsAt
    <2>1. /\ offset'[c] \in {offset[c], Nowhere}
          /\ offset'[d] \in {offset[d], Nowhere}
      BY OpenEffect
    <2>2. SectorsAt(offset[c]) \intersect SectorsAt(offset[d]) = {}
      BY DEF RegionIInv, EntriesApart
    <2>3. QED
      BY <1>1, <2>1, <2>2
  <1>4. ASSUME ~Torn, NEW c \in RegionChunk
        PROVE  ReadChunk(c)' = ReadChunk(c)
    <2>1. offset'[c] = offset[c] /\ SectorCount' \in Nat /\ SectorCount <= SectorCount'
      BY <1>4, OpenEffect
    <2>2. \A s \in SectorsAt(offset[c]) : sector'[s + 1] = sector[s + 1]
      <3>1. CASE offset[c] = Nowhere
        BY <1>1, <3>1
      <3>2. CASE offset[c] # Nowhere
        <4>1. offset[c][1] \in Nat /\ offset[c][2] \in Nat /\ SectorCount \in Nat
          BY SectorsOfEntry DEF RegionIInv
        <4>2. offset[c][1] >= 2 /\ offset[c][1] + offset[c][2] <= SectorCount
          BY <3>2 DEF RegionIInv, EntriesInFile, InFile
        <4>3. \A s \in SectorsAt(offset[c]) : s + 1 \in 1 .. SectorCount
          BY <4>1, <4>2 DEF SectorsAt
        <4>4. QED
          BY <4>3, OpenEffect
      <3>3. QED
        BY <3>1, <3>2
    <2>3. QED
      BY <2>1, <2>2, ReadFrame
  <1>5. QED
    BY <1>2, <1>3, <1>4

-----------------------------------------------------------------------------
(* The invariant: one lemma for each action *)

(* A save opens the file, and nothing is placed yet. *)
LEMMA BeginSaveIInv ==
    ASSUME RegionIInv, NEW c \in RegionChunk, NEW need \in 1 .. SectorLimit,
           BeginSave(c, need)
    PROVE  RegionIInv'
  <1> DEFINE save == [chunk |-> c, n |-> regionSaves + 1, need |-> need]
  <1>1. /\ OpenFile /\ regionSaves < MaxSaves /\ regionSaves' = regionSaves + 1
        /\ job' = [chunk |-> c, save |-> save, at |-> 0, before |-> ReadChunk(c),
                   todo |-> IF Refused(need) THEN <<>> ELSE <<"find">>]
    BY DEF BeginSave
  <1>2. save \in Saved /\ regionSaves' \in 0 .. MaxSaves
    BY <1>1, RegionAssumption DEF RegionIInv, RegionTypes, Saved
  <1>3. ReadChunk(c) \in Saved \cup {Unread}
    BY ReadType
  <1>4. job' \in Job
    BY <1>1, <1>2, <1>3 DEF Job, Todo
  <1>5. job' # Idle /\ job'.chunk = c /\ job'.save = save /\ save.need = need
    BY <1>1, <1>4, JobIsNotIdle
  <1>6. RegionTypes'
    BY <1>1, <1>2, <1>4, OpenEffect DEF RegionTypes, RegionIInv
  <1>7. TablesFirst'
    BY <1>1, <1>5, OpenEffect DEF TablesFirst, RegionIInv
  <1>8. EntriesInFile' /\ EntriesApart'
    BY <1>1, OpenKeeps
  <1>9. RunIsOwn' /\ DataIsThere'
    <2>1. ~Placed'
      BY <1>1, <1>5 DEF Placed, Refused
    <2>2. QED
      BY <2>1 DEF RunIsOwn, DataIsThere
  <1>10. RefusedIsIdle'
    <2> SUFFICES ASSUME Refused(need)
                 PROVE  job'.todo = <<>> /\ (Torn \/ ReadChunk(c)' = job'.before)
      BY <1>5 DEF RefusedIsIdle, Refused, ReadChunk, InFile, SectorCount
    <2>1. job'.todo = <<>> /\ job'.before = ReadChunk(c)
      BY <1>1
    <2>2. QED
      BY <1>1, <2>1, OpenKeeps
  <1>11. QED
    BY <1>6, <1>7, <1>8, <1>9, <1>10 DEF RegionIInv

(* Loading opens the file and changes nothing else. *)
LEMMA LoadChunkIInv ==
    ASSUME RegionIInv, LoadChunk
    PROVE  RegionIInv'
  <1>1. OpenFile /\ job = Idle /\ job' = Idle /\ regionSaves' = regionSaves
    BY DEF LoadChunk
  <1>2. RegionTypes'
    BY <1>1, OpenEffect DEF RegionTypes, RegionIInv
  <1>3. TablesFirst'
    BY <1>1, OpenEffect DEF TablesFirst, RegionIInv
  <1>4. EntriesInFile' /\ EntriesApart'
    BY <1>1, OpenKeeps
  <1>5. RunIsOwn' /\ DataIsThere' /\ RefusedIsIdle'
    BY <1>1 DEF RunIsOwn, DataIsThere, RefusedIsIdle, Placed
  <1>6. QED
    BY <1>2, <1>3, <1>4, <1>5 DEF RegionIInv

(* A save that has written everything leaves the file as it is. *)
LEMMA EndSaveIInv ==
    ASSUME RegionIInv, EndSave
    PROVE  RegionIInv'
  <1>1. UNCHANGED regionDisk /\ job' = Idle /\ regionSaves' = regionSaves
    BY DEF EndSave
  <1>2. RegionTypes' /\ TablesFirst'
    BY <1>1 DEF RegionIInv, RegionTypes, TablesFirst, regionDisk, SectorCount
  <1>3. EntriesInFile' /\ EntriesApart'
    BY <1>1 DEF RegionIInv, EntriesInFile, EntriesApart, regionDisk, InFile, SectorCount,
                SectorsAt
  <1>4. RunIsOwn' /\ DataIsThere' /\ RefusedIsIdle'
    BY <1>1 DEF RunIsOwn, DataIsThere, RefusedIsIdle, Placed
  <1>5. QED
    BY <1>2, <1>3, <1>4 DEF RegionIInv

(* The sectors of an entry are those of the file that follow the tables. *)
LEMMA EntryRange ==
    ASSUME RegionIInv, NEW c \in RegionChunk
    PROVE  SectorsAt(offset[c]) \subseteq 2 .. (SectorCount - 1)
  <1>1. CASE offset[c] = Nowhere
    BY <1>1 DEF SectorsAt, Nowhere
  <1>2. CASE offset[c] # Nowhere
    <2>1. /\ offset[c][1] \in Nat /\ offset[c][2] \in Nat /\ SectorCount \in Nat
      BY SectorsOfEntry DEF RegionIInv
    <2>2. offset[c][1] >= 2 /\ offset[c][1] + offset[c][2] <= SectorCount
      BY <1>2 DEF RegionIInv, EntriesInFile, InFile
    <2>3. QED
      BY <2>1, <2>2 DEF SectorsAt
  <1>3. QED
    BY <1>1, <1>2

(* A run of sectors that are free or the chunk's own, or past the end, is in no
   other chunk.                                                              *)
LEMMA PlaceIsOwn ==
    ASSUME RegionIInv, NEW c \in RegionChunk, NEW need \in Nat \ {0}, SectorCount >= 2,
           NEW own \in SUBSET SectorsAt(offset[c]), NEW at,
           at = Place(need, FreeSectors \union (own \ {0, 1}))
    PROVE  /\ at \in Nat /\ at >= 2
           /\ \A d \in RegionChunk \ {c} : Run(at, need) \intersect SectorsAt(offset[d]) = {}
           /\ at = SectorCount \/ at + need <= SectorCount
  <1> DEFINE free == FreeSectors \union (own \ {0, 1})
  <1>1. SectorCount \in Nat /\ free \subseteq 2 .. (SectorCount - 1)
    BY SectorsOfEntry, EntryRange DEF RegionIInv, FreeSectors
  <1>2. \/ at = SectorCount
        \/ at \in free /\ Run(at, need) \subseteq free
    <2>1. free \in SUBSET Nat
      BY <1>1
    <2> HIDE DEF free
    <2>2. QED
      BY <1>1, <2>1, PlaceFound DEF free
  <1>3. CASE at = SectorCount
    <2>1. ASSUME NEW d \in RegionChunk
          PROVE  Run(at, need) \intersect SectorsAt(offset[d]) = {}
      BY <1>1, <1>3, EntryRange DEF Run
    <2>2. QED
      BY <1>1, <1>3, <2>1
  <1>4. CASE at \in free /\ Run(at, need) \subseteq free
    <2>1. at \in Nat /\ at >= 2
      BY <1>1, <1>4
    <2>2. at + need <= SectorCount
      <3>1. at + need - 1 \in Run(at, need)
        BY <2>1 DEF Run
      <3>2. at + need - 1 \in 2 .. (SectorCount - 1)
        BY <1>1, <1>4, <3>1
      <3>3. QED
        BY <1>1, <2>1, <3>2
    <2>3. ASSUME NEW d \in RegionChunk \ {c}, NEW s \in free, s \in SectorsAt(offset[d])
          PROVE  FALSE
      <3>1. s \notin own
        BY <2>3 DEF RegionIInv, EntriesApart
      <3>2. s \in FreeSectors
        BY <2>3, <3>1
      <3>3. InFile(offset[d])
        <4>1. offset[d] # Nowhere
          BY <2>3 DEF SectorsAt, Nowhere
        <4>2. QED
          BY <4>1 DEF RegionIInv, EntriesInFile
      <3>4. QED
        BY <2>3, <3>2, <3>3 DEF FreeSectors
    <2>4. QED
      BY <1>4, <2>1, <2>2, <2>3
  <1>5. QED
    BY <1>2, <1>3, <1>4

(* The sectors are found: the old ones when they are as many, free ones, or the
   end of the file.                                                          *)
LEMMA FindSectorsIInv ==
    ASSUME RegionIInv, FindSectors
    PROVE  RegionIInv'
  <1> DEFINE c == job.chunk
             need == job.save.need
             own == IF InFile(offset[c]) THEN SectorsAt(offset[c]) ELSE {}
             at == Place(need, FreeSectors \union (own \ {0, 1}))
  <1>1. /\ job # Idle /\ job.todo = <<"find">> /\ UNCHANGED <<regionDisk, regionSaves>>
        /\ job' = IF Same(offset[c], need)
                  THEN [job EXCEPT !.at = offset[c][1], !.todo = Rewrite]
                  ELSE [job EXCEPT !.at = at,
                                   !.todo = IF at < SectorCount THEN Reuse ELSE Grow]
    BY DEF FindSectors
  <1>2. /\ job \in Job /\ c \in RegionChunk /\ job.save \in Saved
        /\ need \in Nat \ {0} /\ SectorCount \in Nat /\ SectorCount >= 2
    BY <1>1, RunningSave
  <1>3. UNCHANGED <<offset, sector, ragged, regionSaves>> /\ SectorCount' = SectorCount
    BY <1>1 DEF regionDisk, SectorCount
  <1>4. ~Refused(need)
    BY <1>1 DEF RegionIInv, RefusedIsIdle
  <1>5. /\ at \in Nat /\ at >= 2
        /\ \A d \in RegionChunk \ {c} : Run(at, need) \intersect SectorsAt(offset[d]) = {}
        /\ at = SectorCount \/ at + need <= SectorCount
    <2> HIDE DEF c, need, at
    <2>1. own \in SUBSET SectorsAt(offset[c])
      OBVIOUS
    <2> HIDE DEF own
    <2>2. QED
      BY <1>2, <2>1, PlaceIsOwn DEF at
  <1> HIDE DEF at, own
  <1>6. /\ job' \in Job /\ job'.chunk = c /\ job'.save = job.save
        /\ job'.todo \in {Rewrite, Reuse, Grow}
        /\ IF Same(offset[c], need)
           THEN job'.at = offset[c][1] /\ job'.todo = Rewrite
           ELSE job'.at = at /\ job'.todo = IF at < SectorCount THEN Reuse ELSE Grow
    <2>1. offset[c][1] \in Nat
      BY <1>2, SectorsOfEntry DEF RegionIInv
    <2>2. QED
      BY <1>1, <1>2, <1>5, <2>1 DEF Job, Todo
  <1>7. job' # Idle
    BY <1>6, JobIsNotIdle
  <1>8. job'.todo \notin {<<"find">>, <<>>, <<"offset", "stamp">>, <<"stamp">>}
    <2>1. \A t \in {Rewrite, Reuse, Grow} :
             t \notin {<<"find">>, <<>>, <<"offset", "stamp">>, <<"stamp">>}
      BY DEF Rewrite, Reuse, Grow
    <2>2. QED
      BY <1>6, <2>1
  <1>9. RegionTypes' /\ TablesFirst'
    BY <1>1, <1>3, <1>6 DEF RegionIInv, RegionTypes, TablesFirst
  <1>10. EntriesInFile' /\ EntriesApart'
    BY <1>2, <1>3, EntriesFrame
  <1>11. Placed'
    BY <1>4, <1>6, <1>7, <1>8 DEF Placed, Refused
  <1>12. RunIsOwn'
    <2> SUFFICES /\ job'.at >= 2
                 /\ \A d \in RegionChunk \ {c} :
                        Run(job'.at, need) \intersect SectorsAt(offset[d]) = {}
                 /\ IF job'.todo = Grow THEN job'.at = SectorCount
                                        ELSE job'.at + need <= SectorCount
                 /\ job'.todo \in {Rewrite, <<"stamp">>, <<>>}
                        => offset[c] = <<job'.at, need>>
      BY <1>3, <1>6 DEF RunIsOwn, Run, SectorsAt
    <2>1. CASE Same(offset[c], need)
      <3>1. offset[c] # Nowhere /\ offset[c][2] = need
        BY <2>1 DEF Same
      <3>2. /\ offset[c][1] >= 2 /\ offset[c][1] + need <= SectorCount
            /\ offset[c] = <<offset[c][1], need>>
        BY <1>2, <3>1, SectorsOfEntry DEF RegionIInv, EntriesInFile, InFile
      <3>3. Run(offset[c][1], need) = SectorsAt(offset[c])
        BY <3>1 DEF Run, SectorsAt
      <3>4. job'.todo # Grow
        BY <1>6, <2>1 DEF Rewrite, Grow
      <3>5. QED
        BY <1>2, <1>6, <2>1, <3>2, <3>3, <3>4 DEF RegionIInv, EntriesApart
    <2>2. CASE ~Same(offset[c], need)
      <3>1. Reuse # Grow /\ Reuse \notin {Rewrite, <<"stamp">>, <<>>}
            /\ Grow \notin {Rewrite, <<"stamp">>, <<>>}
        BY DEF Reuse, Grow, Rewrite
      <3>2. QED
        BY <1>2, <1>5, <1>6, <2>2, <3>1
    <2>3. QED
      BY <2>1, <2>2
  <1>13. DataIsThere'
    BY <1>8 DEF DataIsThere
  <1>14. RefusedIsIdle'
    BY <1>4, <1>6 DEF RefusedIsIdle, Refused
  <1>15. QED
    BY <1>9, <1>10, <1>12, <1>13, <1>14 DEF RegionIInv

(* A write leaves the save placed, with the types it had. *)
LEMMA StillPlaced ==
    ASSUME RegionIInv, Placed, Done, Tail(job.todo) \in Todo \ {<<"find">>}
    PROVE  /\ Placed' /\ job' \in Job /\ job' # Idle
           /\ job'.chunk = job.chunk /\ job'.save = job.save
           /\ job'.at = job.at /\ job'.todo = Tail(job.todo)
           /\ RefusedIsIdle'
  <1>1. /\ job' \in Job /\ job' # Idle
        /\ job'.chunk = job.chunk /\ job'.save = job.save
        /\ job'.at = job.at /\ job'.todo = Tail(job.todo)
    BY DoneEffect DEF Placed
  <1>2. QED
    BY <1>1 DEF Placed, RefusedIsIdle, Refused

(* A file that grows gets sectors no entry points to. *)
LEMMA GrowFileIInv ==
    ASSUME RegionIInv, GrowFile
    PROVE  RegionIInv'
  <1> DEFINE c == job.chunk  need == job.save.need
  <1>1. /\ job # Idle /\ job.todo = Grow /\ Placed
        /\ c \in RegionChunk /\ need \in Nat /\ need >= 1 /\ job.at \in Nat
        /\ SectorCount \in Nat /\ SectorCount >= 2
    <2>1. job # Idle /\ job.todo = Grow
      BY NextWrite DEF GrowFile, Doing
    <2>2. Grow \notin {<<>>, <<"find">>}
      BY DEF Grow
    <2>3. QED
      BY <2>1, <2>2, RunningSave
  <1>2. /\ sector' \in Seq(SectorType) /\ SectorCount' = SectorCount + need
        /\ Done /\ UNCHANGED <<offset, ragged, regionSaves>>
    BY <1>1, GrownSectors DEF GrowFile, SectorCount
  <1>3. /\ Placed' /\ job' \in Job /\ job' # Idle /\ job'.chunk = c
        /\ job'.save = job.save /\ job'.at = job.at
        /\ job'.todo = <<"data", "offset", "stamp">> /\ RefusedIsIdle'
    <2>1. <<"data", "offset", "stamp">> \in Todo \ {<<"find">>}
      BY DEF Todo
    <2>2. QED
      BY <1>1, <1>2, <2>1, AfterWrite, StillPlaced
  <1>4. RegionTypes' /\ TablesFirst'
    BY <1>1, <1>2, <1>3, SMTT(30) DEF RegionIInv, RegionTypes, TablesFirst
  <1>5. EntriesInFile' /\ EntriesApart'
    BY <1>1, <1>2, EntriesFrame
  <1>6. job'.todo \notin {Grow, Rewrite, <<"stamp">>, <<>>, <<"offset", "stamp">>}
    BY <1>3 DEF Grow, Rewrite
  <1>7. RunIsOwn'
    <2>1. /\ job.at >= 2 /\ job.at = SectorCount
          /\ \A d \in RegionChunk \ {c} :
                 Run(job.at, need) \intersect SectorsAt(offset[d]) = {}
      BY <1>1 DEF RegionIInv, RunIsOwn
    <2>2. QED
      BY <1>1, <1>2, <1>3, <1>6, <2>1 DEF RunIsOwn, Run, SectorsAt
  <1>8. DataIsThere'
    BY <1>6 DEF DataIsThere
  <1>9. QED
    BY <1>3, <1>4, <1>5, <1>7, <1>8 DEF RegionIInv

(* Data goes to the run that was found, which no other entry has. *)
LEMMA WriteDataIInv ==
    ASSUME RegionIInv, WriteData
    PROVE  RegionIInv'
  <1> DEFINE c == job.chunk  need == job.save.need  at == job.at
  <1>1. /\ job # Idle /\ Placed /\ Doing("data")
        /\ job.todo \in {Rewrite, <<"data", "offset", "stamp">>}
        /\ c \in RegionChunk /\ need \in Nat /\ need >= 1 /\ at \in Nat
        /\ SectorCount \in Nat /\ SectorCount >= 2
    <2>1. job # Idle /\ Doing("data")
          /\ job.todo \in {Rewrite, <<"data", "offset", "stamp">>}
      BY NextWrite DEF WriteData, Doing
    <2>2. \A t \in {Rewrite, <<"data", "offset", "stamp">>} : t \notin {<<>>, <<"find">>}
      BY DEF Rewrite
    <2>3. QED
      BY <2>1, <2>2, RunningSave
  <1>2. /\ at >= 2 /\ at + need <= SectorCount
        /\ \A d \in RegionChunk \ {c} : Run(at, need) \intersect SectorsAt(offset[d]) = {}
        /\ job.todo = Rewrite => offset[c] = <<at, need>>
    <2>1. job.todo # Grow
      BY <1>1 DEF Grow, Rewrite
    <2>2. QED
      BY <1>1, <2>1 DEF RegionIInv, RunIsOwn
  <1>3. /\ sector' = Written(need) /\ Done /\ UNCHANGED <<offset, ragged, regionSaves>>
    BY DEF WriteData
  <1>4. /\ sector' \in Seq(SectorType) /\ SectorCount' = SectorCount
        /\ \A i \in 1 .. need : sector'[at + i] = Sector(job.save, i)
    <2>1. need \in 1 .. job.save.need
      BY <1>1
    <2>2. ASSUME NEW i \in 1 .. need PROVE Written(need)[at + i] = Sector(job.save, i)
      <3>1. at + i \in 1 .. SectorCount /\ at + i \in (at + 1) .. (at + need)
            /\ (at + i) - at = i
        BY <1>1, <1>2
      <3>2. QED
        BY <1>1, <2>1, <3>1, WrittenSectors
    <2>3. QED
      BY <1>1, <1>3, <2>1, <2>2, WrittenSectors DEF SectorCount
  <1>5. /\ Tail(job.todo) \in {<<"stamp">>, <<"offset", "stamp">>}
        /\ Tail(job.todo) = <<"stamp">> => job.todo = Rewrite
        /\ Tail(job.todo) \in Todo \ {<<"find">>}
    BY <1>1, AfterWrite, TodoDiffer DEF Todo
  <1>6. /\ Placed' /\ job' \in Job /\ job' # Idle /\ job'.chunk = c
        /\ job'.save = job.save /\ job'.at = at
        /\ job'.todo = Tail(job.todo) /\ RefusedIsIdle'
    BY <1>1, <1>3, <1>5, StillPlaced
  <1>7. RegionTypes' /\ TablesFirst'
    BY <1>1, <1>3, <1>4, <1>6 DEF RegionIInv, RegionTypes, TablesFirst
  <1>8. EntriesInFile' /\ EntriesApart'
    BY <1>1, <1>3, <1>4, EntriesFrame
  <1>9. job'.todo \notin {Grow, Rewrite, <<>>}
    BY <1>5, <1>6, TodoDiffer
  <1>10. RunIsOwn'
    BY <1>1, <1>2, <1>3, <1>4, <1>5, <1>6, <1>9 DEF RunIsOwn, Run, SectorsAt
  <1>11. DataIsThere'
    BY <1>4, <1>6 DEF DataIsThere
  <1>12. QED
    BY <1>6, <1>7, <1>8, <1>10, <1>11 DEF RegionIInv

(* The entry is set: its sectors are those the save has found. *)
LEMMA SetOffsetIInv ==
    ASSUME RegionIInv, SetOffset
    PROVE  RegionIInv'
  <1> DEFINE c == job.chunk  need == job.save.need  at == job.at
  <1>1. /\ job # Idle /\ Placed
        /\ job.todo \in {Reuse, <<"offset", "stamp">>}
        /\ c \in RegionChunk /\ need \in Nat /\ need >= 1 /\ at \in Nat
        /\ SectorCount \in Nat /\ SectorCount >= 2
    <2>1. job # Idle /\ job.todo \in {Reuse, <<"offset", "stamp">>}
      BY NextWrite DEF SetOffset, Doing
    <2>2. QED
      BY <2>1, TodoDiffer, RunningSave
  <1>2. /\ at >= 2 /\ at + need <= SectorCount
        /\ \A d \in RegionChunk \ {c} : Run(at, need) \intersect SectorsAt(offset[d]) = {}
    <2>1. job.todo # Grow
      BY <1>1, TodoDiffer
    <2>2. QED
      BY <1>1, <2>1 DEF RegionIInv, RunIsOwn
  <1>3. /\ offset' = [offset EXCEPT ![c] = <<at, need>>]
        /\ Done /\ UNCHANGED <<sector, ragged, regionSaves>>
    BY DEF SetOffset
  <1>4. /\ offset' \in [RegionChunk -> Nat \X Nat]
        /\ \A d \in RegionChunk : offset'[d] = IF d = c THEN <<at, need>> ELSE offset[d]
    BY <1>1, <1>3 DEF RegionIInv, RegionTypes
  <1>5. /\ Tail(job.todo) \in {Rewrite, <<"stamp">>}
        /\ Tail(job.todo) = <<"stamp">> => job.todo = <<"offset", "stamp">>
        /\ Tail(job.todo) \in Todo \ {<<"find">>}
    BY <1>1, AfterWrite, TodoDiffer DEF Todo
  <1>6. /\ Placed' /\ job' \in Job /\ job' # Idle /\ job'.chunk = c
        /\ job'.save = job.save /\ job'.at = at
        /\ job'.todo = Tail(job.todo) /\ RefusedIsIdle'
    BY <1>1, <1>3, <1>5, StillPlaced
  <1>7. RegionTypes' /\ TablesFirst'
    BY <1>1, <1>3, <1>4, <1>6 DEF RegionIInv, RegionTypes, TablesFirst, SectorCount
  <1>8. SectorsAt(<<at, need>>) = Run(at, need)
    BY <1>1, OwnSectors
  <1>9. EntriesInFile'
    <2> SUFFICES ASSUME NEW d \in RegionChunk, offset'[d] # Nowhere
                 PROVE  /\ offset'[d][1] >= 2 /\ offset'[d][2] >= 1
                        /\ offset'[d][1] + offset'[d][2] <= SectorCount
      BY <1>3 DEF EntriesInFile, InFile, SectorCount
    <2>1. CASE d = c
      BY <1>1, <1>2, <1>4, <2>1
    <2>2. CASE d # c
      BY <1>4, <2>2 DEF RegionIInv, EntriesInFile, InFile
    <2>3. QED
      BY <2>1, <2>2
  <1>10. EntriesApart'
    <2> SUFFICES ASSUME NEW d \in RegionChunk, NEW e \in RegionChunk, d # e
                 PROVE  SectorsAt(offset'[d]) \intersect SectorsAt(offset'[e]) = {}
      BY DEF EntriesApart, SectorsAt
    <2>1. CASE d = c
      BY <1>2, <1>4, <1>8, <2>1
    <2>2. CASE e = c
      BY <1>2, <1>4, <1>8, <2>2
    <2>3. CASE d # c /\ e # c
      BY <1>4, <2>3 DEF RegionIInv, EntriesApart
    <2>4. QED
      BY <2>1, <2>2, <2>3
  <1>11. RunIsOwn'
    <2>1. job'.todo # Grow
      BY <1>5, <1>6, TodoDiffer
    <2>2. \A d \in RegionChunk \ {c} : SectorsAt(offset'[d]) = SectorsAt(offset[d])
      BY <1>4
    <2>3. /\ job'.at >= 2 /\ job'.at + job'.save.need <= SectorCount
          /\ \A d \in RegionChunk \ {c} :
                Run(job'.at, job'.save.need) \intersect SectorsAt(offset'[d]) = {}
          /\ offset'[job'.chunk] = <<job'.at, job'.save.need>>
      BY <1>1, <1>2, <1>4, <1>6, <2>2
    <2>4. QED
      BY <1>3, <1>6, <2>1, <2>3 DEF RunIsOwn, Run, SectorsAt, SectorCount
  <1>12. DataIsThere'
    <2>1. job'.todo \notin {<<"offset", "stamp">>, <<>>}
      BY <1>5, <1>6, TodoDiffer
    <2>2. job.todo = <<"offset", "stamp">> =>
             \A i \in 1 .. need : sector[at + i] = Sector(job.save, i)
      BY <1>1 DEF RegionIInv, DataIsThere
    <2>3. QED
      BY <1>3, <1>5, <1>6, <2>1, <2>2 DEF DataIsThere
  <1>13. QED
    BY <1>6, <1>7, <1>9, <1>10, <1>11, <1>12 DEF RegionIInv

(* The timestamp is in a table, before the sectors of any chunk. *)
LEMMA SetTimestampIInv ==
    ASSUME RegionIInv, SetTimestamp
    PROVE  RegionIInv'
  <1> DEFINE c == job.chunk  need == job.save.need  at == job.at
  <1>1. /\ job # Idle /\ Placed /\ job.todo = <<"stamp">>
        /\ c \in RegionChunk /\ need \in Nat /\ need >= 1 /\ at \in Nat
        /\ SectorCount \in Nat /\ SectorCount >= 2
    <2>1. job # Idle /\ job.todo = <<"stamp">>
      BY NextWrite DEF SetTimestamp, Doing
    <2>2. QED
      BY <2>1, TodoDiffer, RunningSave
  <1>2. /\ at >= 2 /\ at + need <= SectorCount
        /\ \A d \in RegionChunk \ {c} : Run(at, need) \intersect SectorsAt(offset[d]) = {}
        /\ offset[c] = <<at, need>>
    <2>1. job.todo # Grow
      BY <1>1, TodoDiffer
    <2>2. QED
      BY <1>1, <2>1 DEF RegionIInv, RunIsOwn
  <1>3. /\ sector' = [sector EXCEPT ![2] = Header]
        /\ Done /\ UNCHANGED <<offset, ragged, regionSaves>>
    BY DEF SetTimestamp
  <1>4. /\ sector' \in Seq(SectorType) /\ SectorCount' = SectorCount
        /\ \A s \in 1 .. SectorCount : s # 2 => sector'[s] = sector[s]
    <2>1. sector \in Seq(SectorType) /\ Header \in SectorType
      BY DEF RegionIInv, RegionTypes, Header, SectorType
    <2>2. QED
      BY <1>1, <1>3, <2>1 DEF SectorCount
  <1>5. Tail(job.todo) = <<>> /\ Tail(job.todo) \in Todo \ {<<"find">>}
    <2>1. <<>> # <<"find">>
      OBVIOUS
    <2>2. QED
      BY <1>1, <2>1, AfterWrite DEF Todo
  <1>6. /\ Placed' /\ job' \in Job /\ job' # Idle /\ job'.chunk = c
        /\ job'.save = job.save /\ job'.at = at
        /\ job'.todo = <<>> /\ RefusedIsIdle'
    BY <1>1, <1>3, <1>5, StillPlaced
  <1>7. RegionTypes' /\ TablesFirst'
    BY <1>1, <1>3, <1>4, <1>6 DEF RegionIInv, RegionTypes, TablesFirst
  <1>8. EntriesInFile' /\ EntriesApart'
    BY <1>1, <1>3, <1>4, EntriesFrame
  <1>9. RunIsOwn'
    <2>1. job'.todo # Grow
      BY <1>6, TodoDiffer
    <2>2. QED
      BY <1>2, <1>3, <1>4, <1>6, <2>1 DEF RunIsOwn, Run, SectorsAt
  <1>10. DataIsThere'
    <2>1. \A i \in 1 .. need : sector[at + i] = Sector(job.save, i)
      BY <1>1 DEF RegionIInv, DataIsThere
    <2>2. \A i \in 1 .. need : sector'[at + i] = Sector(job.save, i)
      BY <1>1, <1>2, <1>4, <2>1, SMTT(30)
    <2>3. QED
      BY <1>6, <2>2 DEF DataIsThere
  <1>11. QED
    BY <1>6, <1>7, <1>8, <1>9, <1>10 DEF RegionIInv

(* A crash leaves what was written, and the entries as they were. *)
LEMMA CrashIInv ==
    ASSUME RegionIInv, Crash
    PROVE  RegionIInv'
  <1>1. /\ job # Idle /\ job' = Idle /\ regionSaves' = regionSaves
        /\ SectorCount \in Nat /\ SectorCount >= 2 /\ job.save.need \in Nat
    BY RunningSave DEF Crash
  <1> DEFINE DiskGood == /\ offset' = offset /\ sector' \in Seq(SectorType)
                         /\ SectorCount' \in Nat /\ SectorCount <= SectorCount'
                         /\ ragged' \in BOOLEAN /\ (ragged' => Torn)
  <1>2. DiskGood
    <2>1. CASE UNCHANGED regionDisk
      BY <1>1, <2>1 DEF RegionIInv, RegionTypes, TablesFirst, regionDisk, SectorCount
    <2>2. ASSUME Doing("data"), NEW parts \in 1 .. (job.save.need - 1),
                 sector' = Written(parts), UNCHANGED <<offset, ragged>>
          PROVE  DiskGood
      <3>1. parts \in 1 .. job.save.need
        BY <1>1
      <3>2. Written(parts) \in Seq(SectorType) /\ Len(Written(parts)) = SectorCount
        BY <1>1, <2>2, <3>1, WrittenSectors
      <3>3. QED
        BY <1>1, <2>2, <3>2 DEF RegionIInv, RegionTypes, TablesFirst, SectorCount
    <2>3. ASSUME NEW parts \in 0 .. (job.save.need - 1),
                 sector' = sector \o [i \in 1 .. parts |-> Zeros],
                 ragged' = (ragged \/ Torn), UNCHANGED offset
          PROVE  DiskGood
      <3>1. parts \in Nat
        BY <1>1
      <3>2. sector' \in Seq(SectorType) /\ SectorCount' = SectorCount + parts
        BY <2>3, <3>1, GrownSectors DEF SectorCount
      <3>3. QED
        BY <1>1, <2>3, <3>1, <3>2, RegionAssumption DEF RegionIInv, RegionTypes, TablesFirst
    <2>4. QED
      BY <2>1, <2>2, <2>3 DEF Crash
  <1>3. RegionTypes' /\ TablesFirst'
    <2>1. RegionTypes'
      BY <1>1, <1>2 DEF RegionIInv, RegionTypes
    <2>2. TablesFirst'
      BY <1>1, <1>2 DEF TablesFirst
    <2>3. QED
      BY <2>1, <2>2
  <1>4. EntriesInFile' /\ EntriesApart'
    BY <1>2, EntriesFrame
  <1>5. RunIsOwn' /\ DataIsThere' /\ RefusedIsIdle'
    BY <1>1 DEF RunIsOwn, DataIsThere, RefusedIsIdle, Placed
  <1>6. QED
    BY <1>3, <1>4, <1>5 DEF RegionIInv

(* The cases together. *)
LEMMA RegionNextIInv == RegionIInv /\ [RegionNext]_regionVars => RegionIInv'
  <1> SUFFICES ASSUME RegionIInv, [RegionNext]_regionVars PROVE RegionIInv'
    OBVIOUS
  <1>1. CASE UNCHANGED regionVars
    <2>1. RegionTypes' /\ TablesFirst' /\ EntriesInFile' /\ EntriesApart'
      BY <1>1 DEF RegionIInv, RegionTypes, TablesFirst, EntriesInFile, EntriesApart,
                  regionVars, regionDisk, InFile, SectorCount, SectorsAt
    <2>2. RunIsOwn' /\ DataIsThere' /\ RefusedIsIdle'
      BY <1>1 DEF RegionIInv, RunIsOwn, DataIsThere, RefusedIsIdle, Placed, regionVars,
                  regionDisk, SectorCount, SectorsAt, Run, Refused, ReadChunk, InFile
    <2>3. QED
      BY <2>1, <2>2 DEF RegionIInv
  <1>2. CASE RegionNext
    BY <1>2, BeginSaveIInv, FindSectorsIInv, GrowFileIInv, WriteDataIInv,
       SetOffsetIInv, SetTimestampIInv, EndSaveIInv, LoadChunkIInv, CrashIInv
    DEF RegionNext
  <1>3. QED
    BY <1>1, <1>2

(* The file keeps its invariant at every step of every save, and whenever the
   server dies.                                                              *)
THEOREM RegionInvariance == RegionSpec => []RegionIInv
  BY RegionInitIInv, RegionNextIInv, PTL DEF RegionSpec

(* No sector ever belongs to two chunks or to a table: the list of free sectors
   that openFile rebuilds from the table of offsets is right.                *)
THEOREM SectorsApart == RegionSpec => []NoSharedSectors
  <1>1. RegionIInv => NoSharedSectors
    BY DEF RegionIInv, EntriesInFile, EntriesApart, NoSharedSectors
  <1>2. QED
    BY <1>1, RegionInvariance, PTL

-----------------------------------------------------------------------------
(* The file implements ChunkFile *)

(* The writes of a save leave every other chunk as it reads. *)
LEMMA OthersKept ==
    ASSUME RegionIInv, RegionIInv', NEW d \in RegionChunk, d # job.chunk,
           \/ FindSectors \/ GrowFile \/ WriteData \/ SetOffset \/ SetTimestamp
           \/ EndSave \/ Crash
    PROVE  ReadChunk(d)' = ReadChunk(d)
  <1>1. /\ job # Idle /\ job.at \in Nat /\ SectorCount \in Nat
        /\ job.save.need \in Nat /\ job.save.need >= 1
        /\ job.chunk \in RegionChunk /\ SectorCount' \in Nat
    <2>1. job # Idle
      BY DEF FindSectors, GrowFile, WriteData, SetOffset, SetTimestamp, EndSave,
             Crash, Doing
    <2>2. SectorCount' \in Nat
      BY DEF RegionIInv, RegionTypes, SectorCount
    <2>3. QED
      BY <2>1, <2>2, RunningSave
  <1>2. SectorsAt(offset[d]) \subseteq 2 .. (SectorCount - 1)
    BY EntryRange
  <1>3. ASSUME Placed, NEW s \in SectorsAt(offset[d])
        PROVE  s + 1 \notin (job.at + 1) .. (job.at + job.save.need)
    <2>1. s \notin Run(job.at, job.save.need)
      BY <1>3 DEF RegionIInv, RunIsOwn
    <2>2. QED
      BY <1>1, <1>2, <2>1 DEF Run
  <1>4. ASSUME Doing("data"), NEW parts \in 1 .. job.save.need, sector' = Written(parts)
        PROVE  /\ SectorCount' = SectorCount
               /\ \A s \in SectorsAt(offset[d]) : sector'[s + 1] = sector[s + 1]
    <2>1. Placed
      BY <1>1, <1>4, NextWrite, RunningSave, TodoDiffer
    <2>2. \A s \in SectorsAt(offset[d]) : s + 1 \in 1 .. SectorCount
      BY <1>1, <1>2
    <2>3. \A s \in SectorsAt(offset[d]) : s + 1 \notin (job.at + 1) .. (job.at + parts)
      BY <1>1, <1>3, <2>1
    <2>4. QED
      BY <1>1, <1>4, <2>2, <2>3, WrittenSectors DEF SectorCount
  <1>5. ASSUME NEW parts \in Nat, sector' = sector \o [i \in 1 .. parts |-> Zeros]
        PROVE  /\ SectorCount <= SectorCount'
               /\ \A s \in SectorsAt(offset[d]) : sector'[s + 1] = sector[s + 1]
    BY <1>1, <1>2, <1>5, GrownSectors DEF SectorCount
  <1> DEFINE Kept == /\ offset'[d] = offset[d] /\ SectorCount <= SectorCount'
                     /\ \A s \in SectorsAt(offset[d]) : sector'[s + 1] = sector[s + 1]
  <1>6. Kept
    <2>1. CASE FindSectors \/ EndSave
      BY <1>1, <2>1 DEF FindSectors, EndSave, regionDisk, SectorCount
    <2>2. CASE GrowFile
      BY <1>1, <1>5, <2>2 DEF GrowFile
    <2>3. CASE WriteData
      <3>1. job.save.need \in 1 .. job.save.need
        BY <1>1
      <3>2. QED
        BY <1>1, <1>4, <2>3, <3>1 DEF WriteData
    <2>4. CASE SetOffset
      BY <1>1, <2>4 DEF SetOffset, SectorCount, RegionIInv, RegionTypes
    <2>5. CASE SetTimestamp
      <3>1. offset' = offset /\ sector' = [sector EXCEPT ![2] = Header]
        BY <2>5 DEF SetTimestamp
      <3>2. \A s \in SectorsAt(offset[d]) : s + 1 \in DOMAIN sector /\ s + 1 # 2
        BY SMTT(30), <1>1, <1>2 DEF SectorCount, RegionIInv, RegionTypes
      <3>3. SectorCount' = SectorCount
        BY <3>1 DEF SectorCount, RegionIInv, RegionTypes
      <3>4. QED
        BY <1>1, <3>1, <3>2, <3>3
    <2>6. CASE Crash
      <3>1. CASE UNCHANGED regionDisk
        BY <1>1, <3>1 DEF regionDisk, SectorCount
      <3>2. ASSUME Doing("data"), NEW parts \in 1 .. (job.save.need - 1),
                   sector' = Written(parts), UNCHANGED offset
            PROVE  Kept
        <4>1. parts \in 1 .. job.save.need
          BY <1>1
        <4>2. QED
          BY <1>1, <1>4, <3>2, <4>1
      <3>3. ASSUME NEW parts \in 0 .. (job.save.need - 1), UNCHANGED offset,
                   sector' = sector \o [i \in 1 .. parts |-> Zeros]
            PROVE  Kept
        <4>1. parts \in Nat
          BY <1>1
        <4>2. QED
          BY <1>5, <3>3, <4>1
      <3>4. QED
        BY <2>6, <3>1, <3>2, <3>3 DEF Crash
    <2>7. QED
      BY <2>1, <2>2, <2>3, <2>4, <2>5, <2>6
  <1>7. QED
    BY <1>1, <1>6, ReadFrame

(* Until it ends or the server dies, a save stays the one it was. *)
LEMMA SaveGoesOn ==
    ASSUME RegionIInv, FindSectors \/ GrowFile \/ WriteData \/ SetOffset \/ SetTimestamp
    PROVE  /\ job # Idle /\ job' # Idle /\ job'.chunk = job.chunk
           /\ job'.before = job.before /\ job'.save = job.save
  <1>1. job # Idle /\ job \in Job /\ job.chunk \in RegionChunk
    <2>1. job # Idle
      BY DEF FindSectors, GrowFile, WriteData, SetOffset, SetTimestamp, Doing
    <2>2. QED
      BY <2>1, RunningSave
  <1>2. \E at, todo : job' = [job EXCEPT !.at = at, !.todo = todo]
    <2>1. CASE FindSectors
      BY <2>1 DEF FindSectors
    <2>2. CASE GrowFile \/ WriteData \/ SetOffset \/ SetTimestamp
      <3>1. job' = [job EXCEPT !.todo = Tail(job.todo)]
        BY <2>2 DEF GrowFile, WriteData, SetOffset, SetTimestamp, Done
      <3>2. job' = [job EXCEPT !.at = job.at, !.todo = Tail(job.todo)]
        BY <1>1, <3>1 DEF Job
      <3>3. QED
        BY <3>2
    <2>3. QED
      BY <2>1, <2>2
  <1>3. /\ job'.chunk = job.chunk /\ job'.before = job.before /\ job'.save = job.save
    BY <1>1, <1>2 DEF Job
  <1>4. job' # Idle
    BY <1>1, <1>3, RegionAssumption DEF Idle
  <1>5. QED
    BY <1>1, <1>3, <1>4

(* Without torn sectors the region file implements the store of chunks that Map
   relies on: what a save wrote is read back, it touches no other chunk, and a
   crash harms only the chunk that was being saved.                          *)
THEOREM Refinement == ASSUME ~Torn PROVE RegionSpec => ImplementsChunkFile
  <1> DEFINE StoredNow ==
               [c \in RegionChunk |-> IF job.chunk = c THEN job.before ELSE ReadChunk(c)]
             SavingNow == IF job = Idle THEN Unread ELSE job.save
  <1>0. Idle.chunk \notin RegionChunk
    BY RegionAssumption DEF Idle
  <1>1. RegionInit => Promise!FileInit
    BY <1>0 DEF RegionInit, ReadChunk, Promise!FileInit
  <1> DEFINE Goal == [Promise!FileNext]_(<<StoredNow, SavingNow>>)
  <1>2. ASSUME RegionIInv, RegionIInv', ReadsAreSaved', [RegionNext]_regionVars
        PROVE  Goal
    <2>1. ASSUME NEW c \in RegionChunk, NEW need \in 1 .. SectorLimit, BeginSave(c, need)
          PROVE  Goal
      <3>1. /\ job = Idle /\ OpenFile /\ job'.chunk = c /\ job'.before = ReadChunk(c)
        BY <2>1 DEF BeginSave
      <3>2. job' # Idle
        BY <3>1, <1>0 
      <3>3. job' \in Job
        BY <1>2, <3>2 DEF RegionIInv, RegionTypes
      <3>4. \A d \in RegionChunk : ReadChunk(d)' = ReadChunk(d)
        BY <3>1, <1>2, OpenKeeps
      <3>5. StoredNow' = StoredNow
        BY <1>0, <3>1, <3>4
      <3>6. SavingNow = Unread /\ SavingNow' = job'.save
        BY <3>1, <3>2
      <3>7. QED
        BY <3>3, <3>5, <3>6 DEF Promise!FileNext, Promise!Begin, Job
    <2>2. CASE FindSectors \/ GrowFile \/ WriteData \/ SetOffset \/ SetTimestamp
      <3>1. /\ job # Idle /\ job' # Idle /\ job'.chunk = job.chunk
            /\ job'.before = job.before /\ job'.save = job.save
        BY <1>2, <2>2, SaveGoesOn
      <3>2. \A d \in RegionChunk : d # job.chunk => ReadChunk(d)' = ReadChunk(d)
        BY <1>2, <2>2, OthersKept
      <3>3. QED
        BY <3>1, <3>2
    <2>3. CASE EndSave
      <3>1. /\ job # Idle /\ job.todo = <<>> /\ job' = Idle
        BY <2>3 DEF EndSave
      <3>2. /\ job.save \in Saved /\ job.chunk \in RegionChunk /\ job.save.chunk = job.chunk
        BY <1>2, <3>1, RunningSave
      <3>3. \A d \in RegionChunk : d # job.chunk => ReadChunk(d)' = ReadChunk(d)
        BY <1>2, <2>3, OthersKept
      <3>4. \A d \in RegionChunk : ReadChunk(d)' = ReadChunk(d)
        BY <2>3 DEF EndSave, regionDisk, ReadChunk, InFile, SectorCount
      <3>5. ReadChunk(job.chunk) = IF Refused(job.save.need) THEN job.before ELSE job.save
        <4>1. CASE Refused(job.save.need)
          BY <1>2, <3>1, <4>1 DEF RegionIInv, RefusedIsIdle
        <4>2. CASE ~Refused(job.save.need)
          BY <1>2, <3>1, <4>2, TodoDiffer, ReadWritten DEF Placed
        <4>3. QED
          BY <4>1, <4>2
      <3> PICK c \in RegionChunk : c = job.chunk
        BY <3>2
      <3>6. StoredNow' = [d \in RegionChunk |-> ReadChunk(d)]
        BY <1>0, <3>1, <3>4
      <3>7. StoredNow' = IF Refused(job.save.need) THEN StoredNow
                         ELSE [StoredNow EXCEPT ![c] = job.save]
        BY <3>5, <3>6
      <3>8. SavingNow = job.save /\ SavingNow' = Unread
        BY <3>1
      <3> PICK v \in Saved : v = job.save
        BY <3>2
      <3>9. Promise!Finish(v)
        <4> HIDE DEF StoredNow, SavingNow
        <4>1. v \in {u \in Saved : Refused(u.need)} <=> Refused(job.save.need)
          OBVIOUS
        <4>2. QED
          BY <3>2, <3>7, <3>8, <4>1 DEF Promise!Finish, StoredNow, SavingNow
      <3>10. QED
        BY <3>9 DEF Promise!FileNext
    <2>4. CASE Crash
      <3>1. job # Idle /\ job' = Idle
        BY <2>4 DEF Crash
      <3>2. /\ job.save \in Saved /\ job.chunk \in RegionChunk /\ job.save.chunk = job.chunk
        BY <1>2, <3>1, RunningSave
      <3>3. \A d \in RegionChunk : d # job.chunk => ReadChunk(d)' = ReadChunk(d)
        BY <1>2, <2>4, OthersKept
      <3> PICK c \in RegionChunk : c = job.chunk
        BY <3>2
      <3>4. ReadChunk(c)' \in Saved \cup {Unread}
        BY <1>2 DEF ReadsAreSaved
      <3>5. StoredNow' = [d \in RegionChunk |-> ReadChunk(d)']
        BY <1>0, <3>1
      <3>6. StoredNow' = [StoredNow EXCEPT ![c] = ReadChunk(c)']
        BY <3>3, <3>5
      <3>7. SavingNow = job.save /\ SavingNow' = Unread
        BY <3>1
      <3> PICK v \in Saved : v = job.save
        BY <3>2
      <3>8. Promise!CrashWhileSaving(v)
        BY <3>2, <3>4, <3>6, <3>7 DEF Promise!CrashWhileSaving
      <3>9. QED
        BY <3>8 DEF Promise!FileNext
    <2>5. CASE LoadChunk
      <3>1. /\ job = Idle /\ OpenFile /\ job' = job
        BY <2>5 DEF LoadChunk
      <3>2. \A d \in RegionChunk : ReadChunk(d)' = ReadChunk(d)
        BY <3>1, <1>2, OpenKeeps
      <3>3. QED
        BY <3>1, <3>2
    <2>6. CASE UNCHANGED regionVars
      BY <2>6 DEF regionVars, regionDisk, ReadChunk, InFile, SectorCount
    <2>7. QED
      BY <1>2, <2>1, <2>2, <2>3, <2>4, <2>5, <2>6 DEF RegionNext
  <1>3. RegionIInv => ReadsAreSaved
    BY ReadType DEF ReadsAreSaved
  <1>4. QED
    BY <1>1, <1>2, <1>3, RegionInvariance, PTL
    DEF RegionSpec, ImplementsChunkFile, Promise!FileSpec

------------------------------------------------------------------------------
(* The chunk store. *)

Past == [tile : Tile, chest : Nat \union {NoData}, lost : BOOLEAN,
         saves : {0, 1}, stale : BOOLEAN]

StoreTypes ==
    /\ memory \in [StoreChunk -> MapChunk \union {NoData}]
    /\ file \in [StoreChunk -> Stored \union {NoData}]
    /\ edits \in Nat
    /\ past \in [StoreChunk -> Past]

\* The history says what is in memory.  The entry list is empty until the first
\* save, and then begins with the chest that loading will take.
Remembered(m, p) ==
    /\ p.tile = m.tile
    /\ p.chest = IF m.tile = "chest" THEN m.entities["chest"] ELSE NoData
    /\ p.saves = 0 => m.list = <<>>
    /\ p.saves # 0 /\ ~p.stale /\ m.tile = "chest" => Chosen(m.list, "chest") = p.chest

\* The file has what the history says, unless there is something to be saved.
OnDisk(f, p) == TileOf(f) = p.tile /\ (~p.stale => ChestOf(f) = p.chest)

Kept(m, f, p) ==
    /\ m # NoData => Remembered(m, p)
    /\ ~p.lost /\ (m = NoData \/ ~m.changed) => OnDisk(f, p)

StoreIInv == StoreTypes /\ \A c \in StoreChunk : Kept(memory[c], file[c], past[c])

-----------------------------------------------------------------------------
(* Which entry of a list loading takes *)

(* Min takes the least element of a set of positions. *)
LEMMA FirstOf ==
    ASSUME NEW S \in SUBSET Nat, S # {}
    PROVE  Min(S) \in S /\ \A i \in S : Min(S) <= i
  BY LeastNatural DEF Min

(* A list without entries of kind k has nothing to load. *)
LEMMA ChosenNone ==
    ASSUME NEW s, NEW k, \A i \in DOMAIN s : s[i].kind # k
    PROVE  Chosen(s, k) = NoData
  BY DEF Chosen

(* The first entry of kind k is the one that is loaded. *)
LEMMA ChosenFirst ==
    ASSUME NEW s \in Seq(TileEntity), NEW k, NEW i \in DOMAIN s, s[i].kind = k,
           \A j \in DOMAIN s : s[j].kind = k => i <= j
    PROVE  Chosen(s, k) = s[i].data
  <1> DEFINE S == {j \in DOMAIN s : s[j].kind = k}
  <1>1. S \in SUBSET Nat /\ S # {} /\ i \in S
    OBVIOUS
  <1>2. Min(S) \in S /\ Min(S) <= i
    BY <1>1, FirstOf
  <1>3. Min(S) = i
    BY <1>1, <1>2
  <1>4. QED
    BY <1>1, <1>3 DEF Chosen

(* What loading takes is data or nothing. *)
LEMMA ChosenType ==
    ASSUME NEW s \in Seq(TileEntity), NEW k
    PROVE  Chosen(s, k) \in Nat \union {NoData}
  <1> DEFINE S == {j \in DOMAIN s : s[j].kind = k}
  <1>1. CASE S = {}
    BY <1>1 DEF Chosen
  <1>2. CASE S # {}
    <2>0. S \in SUBSET Nat
      OBVIOUS
    <2>1. Min(S) \in S
      BY <1>2, <2>0, FirstOf
    <2>2. s[Min(S)] \in TileEntity
      BY <2>1
    <2>3. QED
      BY <1>2, <2>2 DEF Chosen, TileEntity
  <1>3. QED
    BY <1>1, <1>2

(* Entries that are added behind an entry of the kind are not looked at. *)
LEMMA ChosenKept ==
    ASSUME NEW s \in Seq(TileEntity), NEW t \in Seq(TileEntity), NEW k,
           Chosen(s, k) # NoData
    PROVE  Chosen(s \o t, k) = Chosen(s, k)
  <1> DEFINE S == {j \in DOMAIN s : s[j].kind = k}
  <1>1. S # {} /\ S \in SUBSET Nat
    BY DEF Chosen
  <1>2. Min(S) \in S /\ \A j \in S : Min(S) <= j
    BY <1>1, FirstOf
  <1>3. PICK i \in DOMAIN s : s[i].kind = k /\ \A j \in DOMAIN s : s[j].kind = k => i <= j
    BY <1>2
  <1>4. Chosen(s, k) = s[i].data
    BY <1>3, ChosenFirst
  <1> DEFINE st == s \o t
  <1>5. /\ st \in Seq(TileEntity) /\ i \in DOMAIN st
        /\ st[i] = s[i]
        /\ \A j \in DOMAIN st : st[j].kind = k => i <= j
    BY <1>3
  <1> HIDE DEF S, st
  <1>6. Chosen(st, k) = st[i].data
    BY <1>3, <1>5, ChosenFirst
  <1>7. QED
    BY <1>4, <1>5, <1>6 DEF st

(* Where there is no entry of the kind and none is added there is none. *)
LEMMA ChosenNoneOfBoth ==
    ASSUME NEW s \in Seq(TileEntity), NEW t \in Seq(TileEntity), NEW k,
           Chosen(s, k) = NoData, Chosen(t, k) = NoData
    PROVE  Chosen(s \o t, k) = NoData
  <1>1. ASSUME NEW r \in Seq(TileEntity), NEW j \in DOMAIN r, r[j].kind = k
        PROVE  Chosen(r, k) # NoData
    <2> DEFINE S == {i \in DOMAIN r : r[i].kind = k}
    <2>1. S \in SUBSET Nat /\ S # {}
      BY <1>1
    <2>2. Min(S) \in S
      BY <2>1, FirstOf
    <2>3. r[Min(S)] \in TileEntity
      BY <2>2
    <2>4. Chosen(r, k) \in Nat
      BY <2>1, <2>3 DEF Chosen, TileEntity
    <2>5. QED
      BY <2>4, NoDataAssumption
  <1>2. \A j \in DOMAIN s : s[j].kind # k
    BY <1>1
  <1>3. \A j \in DOMAIN t : t[j].kind # k
    BY <1>1
  <1> DEFINE st == s \o t
  <1>4. \A j \in DOMAIN st : st[j].kind # k
    BY <1>2, <1>3
  <1> HIDE DEF st
  <1>5. QED
    BY <1>4, ChosenNone DEF st

(* What a save adds for the chest is the chest. *)
LEMMA ChosenNew ==
    ASSUME NEW m \in MapChunk
    PROVE  /\ NewEntries(m) \in Seq(TileEntity)
           /\ Chosen(NewEntries(m), "chest") = m.entities["chest"]
  <1> DEFINE a == EntriesOf(m, "sign")
             b == EntriesOf(m, "chest")
             d == EntriesOf(m, "furnace")
             s == NewEntries(m)
  <1>1. \A k \in Kind : /\ EntriesOf(m, k) \in Seq(TileEntity)
                        /\ Len(EntriesOf(m, k)) = IF m.entities[k] = NoData THEN 0 ELSE 1
                        /\ \A i \in DOMAIN EntriesOf(m, k) :
                             /\ EntriesOf(m, k)[i].kind = k
                             /\ EntriesOf(m, k)[i].data = m.entities[k]
    <2> SUFFICES ASSUME NEW k \in Kind
                 PROVE  /\ EntriesOf(m, k) \in Seq(TileEntity)
                        /\ Len(EntriesOf(m, k)) = IF m.entities[k] = NoData THEN 0 ELSE 1
                        /\ \A i \in DOMAIN EntriesOf(m, k) :
                             /\ EntriesOf(m, k)[i].kind = k
                             /\ EntriesOf(m, k)[i].data = m.entities[k]
      OBVIOUS
    <2>1. m.entities[k] \in Nat \union {NoData}
      BY DEF MapChunk
    <2>2. CASE m.entities[k] = NoData
      BY <2>2 DEF EntriesOf
    <2>3. CASE m.entities[k] # NoData
      <3>1. Entry(k, m.entities[k]) \in TileEntity
        BY <2>1, <2>3 DEF Entry, TileEntity
      <3>2. QED
        BY <2>3, <3>1 DEF EntriesOf, Entry
    <2>4. QED
      BY <2>2, <2>3
  <1>2. {"sign", "chest", "furnace"} = Kind
    BY DEF Kind
  <1>3. /\ a \in Seq(TileEntity) /\ b \in Seq(TileEntity) /\ d \in Seq(TileEntity)
        /\ Len(a) \in {0, 1} /\ Len(b) = (IF m.entities["chest"] = NoData THEN 0 ELSE 1)
        /\ \A i \in DOMAIN a : a[i].kind = "sign"
        /\ \A i \in DOMAIN b : b[i].kind = "chest" /\ b[i].data = m.entities["chest"]
        /\ \A i \in DOMAIN d : d[i].kind = "furnace"
    BY <1>1, <1>2
  <1>4. s = a \o b \o d
    BY DEF NewEntries
  <1> HIDE DEF a, b, d, s
  <1>5. /\ s \in Seq(TileEntity)
        /\ \A i \in DOMAIN s :
             s[i] = IF i <= Len(a) THEN a[i]
                    ELSE IF i <= Len(a) + Len(b) THEN b[i - Len(a)]
                    ELSE d[i - Len(a) - Len(b)]
        /\ Len(s) = Len(a) + Len(b) + Len(d)
    BY SMTT(30), <1>3, <1>4
  <1>6. CASE m.entities["chest"] = NoData
    <2>1. \A i \in DOMAIN s : s[i].kind # "chest"
      BY <1>3, <1>5, <1>6
    <2>2. QED
      BY <1>5, <1>6, <2>1, ChosenNone DEF s
  <1>7. CASE m.entities["chest"] # NoData
    <2> DEFINE i == Len(a) + 1
    <2>0. Len(a) \in Nat /\ Len(b) = 1 /\ Len(d) \in Nat /\ 1 \in DOMAIN b
      BY <1>3, <1>7
    <2>1. i \in DOMAIN s /\ s[i] = b[1] /\ 1 \in DOMAIN b
      <3>1. i \in 1 .. Len(s) /\ ~(i <= Len(a)) /\ i <= Len(a) + Len(b)
        BY <1>5, <2>0
      <3>2. i \in DOMAIN s /\ i - Len(a) = 1
        BY <1>5, <2>0, <3>1
      <3>3. QED
        BY <1>5, <2>0, <3>1, <3>2
    <2>2. \A j \in DOMAIN s : s[j].kind = "chest" => i <= j
      BY <1>3, <1>5
    <2>3. s[i].kind = "chest" /\ s[i].data = m.entities["chest"]
      BY <1>3, <2>1
    <2> HIDE DEF i
    <2>4. Chosen(s, "chest") = s[i].data
      BY <1>5, <2>1, <2>2, <2>3, ChosenFirst
    <2>5. QED
      BY <1>5, <2>3, <2>4 DEF s
  <1>8. QED
    BY <1>6, <1>7

-----------------------------------------------------------------------------
(* One chunk *)

(* A chunk that is saved is remembered, and it is in the file unless the file
   refused it; so it may stay in memory or be released.                      *)
LEMMA SaveKept ==
    ASSUME NEW m \in MapChunk, NEW f \in Stored \union {NoData}, NEW p \in Past,
           Kept(m, f, p)
    PROVE  /\ AfterSave(m) \in MapChunk
           /\ FileAfter(m, f) \in Stored \union {NoData}
           /\ PastSave(m, p) \in Past
           /\ Kept(AfterSave(m), FileAfter(m, f), PastSave(m, p))
           /\ Kept(NoData, FileAfter(m, f), PastSave(m, p))
  <1> DEFINE l == Listed(m)
  <1>1. m # NoData /\ Remembered(m, p)
    BY NoDataAssumption DEF Kept
  <1>2. CASE ~m.changed
    <2>1. AfterSave(m) = m /\ FileAfter(m, f) = f /\ PastSave(m, p) = p
      BY <1>2 DEF AfterSave, FileAfter, PastSave, NeedsSave
    <2>2. Kept(NoData, f, p)
      BY <1>2 DEF Kept
    <2>3. QED
      BY <2>1, <2>2
  <1>3. CASE m.changed
    <2>1. m.list \in Seq(TileEntity) /\ l \in Seq(TileEntity)
      BY ChosenNew DEF Listed, MapChunk
    <2> HIDE DEF l
    <2>2. /\ AfterSave(m) = [m EXCEPT !.list = l, !.changed = FALSE]
          /\ AfterSave(m) \in MapChunk
      BY <1>3, <2>1 DEF AfterSave, NeedsSave, MapChunk, l
    <2>3. /\ PastSave(m, p) = [p EXCEPT !.lost = (Len(l) > EntryLimit), !.saves = 1]
          /\ PastSave(m, p) \in Past
      <3> DEFINE b == Len(l) > EntryLimit
      <3>1. b \in BOOLEAN
        OBVIOUS
      <3>2. PastSave(m, p) = [p EXCEPT !.lost = b, !.saves = 1]
        BY <1>3 DEF PastSave, NeedsSave, l
      <3> HIDE DEF b
      <3>3. PastSave(m, p) \in Past
        BY <3>1, <3>2 DEF Past
      <3>4. QED
        BY <3>2, <3>3 DEF b
    <2>4. /\ FileAfter(m, f) = IF Len(l) > EntryLimit THEN f
                               ELSE [tile |-> m.tile, entries |-> l]
          /\ [tile |-> m.tile, entries |-> l] \in Stored
          /\ FileAfter(m, f) \in Stored \union {NoData}
      BY <1>3, <2>1 DEF FileAfter, NeedsSave, Stored, MapChunk, l
    \* The chest that loading takes from the list of this save.
    <2>5. ~p.stale /\ m.tile = "chest" => Chosen(l, "chest") = p.chest
      <3> SUFFICES ASSUME ~p.stale, m.tile = "chest"
                   PROVE  Chosen(l, "chest") = p.chest
        OBVIOUS
      <3>1. p.chest = m.entities["chest"] /\ l = m.list \o NewEntries(m)
        BY <1>1 DEF Remembered, Listed, l
      <3>2. /\ NewEntries(m) \in Seq(TileEntity)
            /\ Chosen(NewEntries(m), "chest") = p.chest
        BY <3>1, ChosenNew
      <3>3. CASE p.saves = 0
        <4>1. m.list = <<>>
          BY <1>1, <3>3 DEF Remembered
        <4>2. l = NewEntries(m)
          BY <3>1, <3>2, <4>1
        <4>3. QED
          BY <3>2, <4>2
      <3>4. CASE p.saves # 0
        <4>1. Chosen(m.list, "chest") = p.chest
          BY <1>1, <3>4 DEF Remembered
        <4>2. CASE p.chest # NoData
          BY <2>1, <3>1, <3>2, <4>1, <4>2, ChosenKept
        <4>3. CASE p.chest = NoData
          BY <2>1, <3>1, <3>2, <4>1, <4>3, ChosenNoneOfBoth
        <4>4. QED
          BY <4>2, <4>3
      <3>5. QED
        BY <3>3, <3>4
    <2>6. ASSUME ~(Len(l) > EntryLimit)
          PROVE  OnDisk(FileAfter(m, f), PastSave(m, p))
      <3>1. /\ FileAfter(m, f).tile = m.tile /\ FileAfter(m, f).entries = l
            /\ FileAfter(m, f) # NoData
        BY <2>4, <2>6, NoDataAssumption
      <3>2. /\ PastSave(m, p).tile = p.tile /\ PastSave(m, p).chest = p.chest
            /\ PastSave(m, p).stale = p.stale
        BY <2>3 DEF Past
      <3>3. QED
        BY <1>1, <2>5, <3>1, <3>2 DEF OnDisk, TileOf, ChestOf, Remembered
    <2>7. Remembered(AfterSave(m), PastSave(m, p))
      <3>1. /\ AfterSave(m).tile = m.tile /\ AfterSave(m).entities = m.entities
            /\ AfterSave(m).list = l
        BY <2>2 DEF MapChunk
      <3>2. /\ PastSave(m, p).tile = p.tile /\ PastSave(m, p).chest = p.chest
            /\ PastSave(m, p).stale = p.stale /\ PastSave(m, p).saves = 1
        BY <2>3 DEF Past
      <3>3. QED
        BY <1>1, <2>5, <3>1, <3>2 DEF Remembered
    <2>8. PastSave(m, p).lost = (Len(l) > EntryLimit)
      BY <2>3 DEF Past
    <2>9. QED
      BY <2>2, <2>3, <2>4, <2>6, <2>7, <2>8 DEF Kept
  <1>4. QED
    BY <1>2, <1>3 DEF MapChunk

(* Loading makes a chunk, with one entry of the file's for its block. *)
LEMMA FromFileType ==
    ASSUME NEW f \in Stored
    PROVE  /\ FromFile(f) \in MapChunk
           /\ FromFile(f).tile = f.tile /\ FromFile(f).list = <<>>
           /\ f.tile = "chest" =>
                FromFile(f).entities["chest"] = Chosen(f.entries, "chest")
  <1> DEFINE e == [k \in Kind |-> IF BlockIs(k, f.tile) THEN Chosen(f.entries, k)
                                  ELSE NoData]
  <1>1. f.tile \in Tile /\ f.entries \in Seq(TileEntity)
    BY DEF Stored
  <1>2. e \in [Kind -> Nat \union {NoData}]
    <2>1. \A k \in Kind : Chosen(f.entries, k) \in Nat \union {NoData}
      BY <1>1, ChosenType
    <2> HIDE DEF Kind
    <2>2. QED
      BY <2>1
  <1>3. FromFile(f) = [tile |-> f.tile, entities |-> e, list |-> <<>>,
                       changed |-> FALSE, used |-> TRUE]
    BY DEF FromFile
  <1>4. f.tile = "chest" => e["chest"] = Chosen(f.entries, "chest")
    BY DEF Kind, BlockIs
  <1> HIDE DEF e
  <1>5. QED
    BY <1>1, <1>2, <1>3, <1>4 DEF MapChunk

(* Loading takes from the file what the history is then about. *)
LEMMA FromFileKept ==
    ASSUME NEW f \in Stored, NEW p \in Past,
           p.tile = FromFile(f).tile, p.saves = 0,
           p.chest = IF FromFile(f).tile = "chest" THEN FromFile(f).entities["chest"]
                     ELSE NoData
    PROVE  Kept(FromFile(f), f, p)
  <1>1. f # NoData
    BY NoDataAssumption
  <1>2. p.tile = f.tile /\ p.chest = ChestOf(f)
    BY <1>1, FromFileType DEF ChestOf
  <1>3. Remembered(FromFile(f), p)
    BY FromFileType DEF Remembered
  <1>4. OnDisk(f, p)
    BY <1>1, <1>2 DEF OnDisk, TileOf
  <1>5. QED
    BY <1>3, <1>4 DEF Kept

-----------------------------------------------------------------------------
(* The steps *)

(* Nothing is in memory or in the file at first. *)
LEMMA StoreInitIInv == StoreInit => StoreIInv
  <1> SUFFICES ASSUME StoreInit PROVE StoreIInv
    OBVIOUS
  <1>1. StoreTypes
    BY DEF StoreInit, StoreTypes, Past, Tile
  <1>2. ASSUME NEW c \in StoreChunk PROVE Kept(memory[c], file[c], past[c])
    <2>1. /\ memory[c] = NoData /\ file[c] = NoData
          /\ past[c].tile = "air" /\ past[c].chest = NoData
      BY DEF StoreInit
    <2>2. QED
      BY <2>1 DEF Kept, OnDisk, TileOf, ChestOf
  <1>3. QED
    BY <1>1, <1>2 DEF StoreIInv

(* A step that puts m, f and p in the place of what there was of one chunk. *)
LEMMA OneChunk ==
    ASSUME StoreIInv, NEW c \in StoreChunk, NEW m \in MapChunk \union {NoData},
           NEW f \in Stored \union {NoData}, NEW p \in Past, Kept(m, f, p),
           memory' = [memory EXCEPT ![c] = m], file' = [file EXCEPT ![c] = f],
           past' = [past EXCEPT ![c] = p], edits' \in Nat
    PROVE  StoreIInv'
  <1>1. StoreTypes'
    BY DEF StoreIInv, StoreTypes
  <1>2. ASSUME NEW d \in StoreChunk PROVE Kept(memory'[d], file'[d], past'[d])
    <2>1. CASE d = c
      BY <2>1 DEF StoreIInv, StoreTypes
    <2>2. CASE d # c
      <3>1. memory'[d] = memory[d] /\ file'[d] = file[d] /\ past'[d] = past[d]
        BY <2>2 DEF StoreIInv, StoreTypes
      <3>2. QED
        BY <3>1 DEF StoreIInv
    <2>3. QED
      BY <2>1, <2>2
  <1>3. QED
    BY <1>1, <1>2 DEF StoreIInv

(* What the types and the invariant say of one chunk. *)
LEMMA ChunkTypes ==
    ASSUME StoreIInv, NEW c \in StoreChunk
    PROVE  /\ memory[c] \in MapChunk \union {NoData}
           /\ Loaded(c) => memory[c] \in MapChunk /\ Remembered(memory[c], past[c])
           /\ file[c] \in Stored \union {NoData}
           /\ past[c] \in Past
           /\ Kept(memory[c], file[c], past[c])
           /\ edits \in Nat
           /\ file = [file EXCEPT ![c] = file[c]]
           /\ past = [past EXCEPT ![c] = past[c]]
  BY DEF StoreIInv, StoreTypes, Loaded, Kept

(* Loading gives a chunk the history it starts with: what the file has. *)
LEMMA LoadMapIInv == ASSUME StoreIInv, NEW c \in StoreChunk, LoadMap(c) PROVE StoreIInv'
  <1> DEFINE m == IF file[c] = NoData THEN Generated ELSE FromFile(file[c])
             p == [tile |-> m.tile,
                   chest |-> IF m.tile = "chest" THEN m.entities["chest"] ELSE NoData,
                   lost |-> FALSE, saves |-> 0, stale |-> FALSE]
  <1>1. /\ file[c] \in Stored \union {NoData} /\ past[c] \in Past /\ edits \in Nat
        /\ memory \in [StoreChunk -> MapChunk \union {NoData}]
        /\ past \in [StoreChunk -> Past]
    BY ChunkTypes DEF StoreIInv, StoreTypes
  <1>2. memory' = [memory EXCEPT ![c] = m] /\ UNCHANGED <<file, edits>>
    BY DEF LoadMap
  <1>3. past' = [past EXCEPT ![c] = p]
    BY DEF LoadMap
  <1>4. m \in MapChunk
    <2>1. CASE file[c] = NoData
      BY <2>1, StoreAssumption DEF Generated, MapChunk, NoEntities, Tile
    <2>2. CASE file[c] # NoData
      BY <1>1, <2>2, FromFileType
    <2>3. QED
      BY <2>1, <2>2
  <1>5. /\ p \in Past /\ p.tile = m.tile /\ p.saves = 0
        /\ p.chest = (IF m.tile = "chest" THEN m.entities["chest"] ELSE NoData)
    <2>1. m.tile \in Tile /\ m.entities["chest"] \in Nat \union {NoData}
      BY <1>4 DEF MapChunk, Kind
    <2> HIDE DEF m
    <2>2. QED
      BY <1>1, <2>1 DEF Past
  <1>6. Kept(m, file[c], p)
    <2>1. CASE file[c] = NoData
      <3>1. m = Generated
        BY <2>1
      <3>2. m.tile = "air" /\ m.list = <<>>
        BY <3>1 DEF Generated
      <3>3. p.tile = "air" /\ p.chest = NoData
        BY <1>5, <3>2
      <3> HIDE DEF m, p
      <3>4. QED
        BY <1>5, <2>1, <3>2, <3>3 DEF Kept, Remembered, OnDisk, TileOf, ChestOf
    <2>2. CASE file[c] # NoData
      <3>1. m = FromFile(file[c]) /\ file[c] \in Stored
        BY <1>1, <2>2
      <3> HIDE DEF m, p
      <3>2. QED
        BY <1>5, <3>1, FromFileKept
    <2>3. QED
      BY <2>1, <2>2
  <1> HIDE DEF m, p
  <1>7. QED
    BY <1>1, <1>2, <1>3, <1>4, <1>5, <1>6, OneChunk, ChunkTypes

(* A chunk that is marked as changed is kept if the history remembers it. *)
LEMMA ChangedChunk ==
    ASSUME NEW m \in MapChunk, m.changed, NEW f, NEW p, Remembered(m, p)
    PROVE  Kept(m, f, p)
  BY NoDataAssumption DEF Kept

(* Who places a block with data marks the chunk as changed. *)
LEMMA PlaceTileIInv ==
    ASSUME StoreIInv, NEW c \in StoreChunk, NEW k \in Kind, PlaceTile(c, k)
    PROVE  StoreIInv'
  <1> DEFINE e == IF k = "chest" THEN [memory[c].entities EXCEPT !["chest"] = 0]
                  ELSE memory[c].entities
             m == [memory[c] EXCEPT !.tile = k, !.changed = TRUE, !.used = TRUE,
                                    !.entities = e]
             p == [past[c] EXCEPT !.tile = k,
                                  !.chest = IF k = "chest" THEN 0 ELSE NoData,
                                  !.stale = @ \/ past[c].saves > 0]
  <1>1. /\ memory[c] \in MapChunk /\ Remembered(memory[c], past[c])
        /\ file[c] \in Stored \union {NoData} /\ past[c] \in Past /\ edits \in Nat
        /\ file = [file EXCEPT ![c] = file[c]]
        /\ memory \in [StoreChunk -> MapChunk \union {NoData}]
        /\ past \in [StoreChunk -> Past]
    BY ChunkTypes DEF PlaceTile, StoreIInv, StoreTypes
  <1>2. /\ memory' = [memory EXCEPT ![c] = m] /\ past' = [past EXCEPT ![c] = p]
        /\ file' = file /\ edits' = edits
    BY <1>1 DEF PlaceTile, WithBlock, MapChunk
  <1>3. e \in [Kind -> Nat \union {NoData}] /\ (k = "chest" => e["chest"] = 0)
    BY <1>1 DEF MapChunk, Kind
  <1> HIDE DEF e
  <1>4. m \in MapChunk /\ m.tile = k /\ m.changed /\ m.entities = e /\ m.list = memory[c].list
    BY <1>1, <1>3 DEF MapChunk, Tile
  <1>5. /\ p \in Past /\ p.tile = k /\ p.chest = (IF k = "chest" THEN 0 ELSE NoData)
        /\ p.saves = past[c].saves /\ (~p.stale => ~(past[c].saves > 0))
    <2>1. (past[c].stale \/ past[c].saves > 0) \in BOOLEAN
      OBVIOUS
    <2>2. QED
      BY <1>1, <2>1 DEF Past, Tile
  <1>6. p.saves = 0 \/ p.stale
    BY <1>1, <1>5 DEF Past
  <1> HIDE DEF m, p
  <1>7. Remembered(m, p)
    BY <1>1, <1>3, <1>4, <1>5, <1>6 DEF Remembered
  <1>8. Kept(m, file[c], p)
    BY <1>4, <1>7, ChangedChunk
  <1>9. QED
    BY <1>1, <1>2, <1>4, <1>5, <1>8, OneChunk

(* So does who breaks one. *)
LEMMA BreakTileIInv == ASSUME StoreIInv, NEW c \in StoreChunk, BreakTile(c) PROVE StoreIInv'
  <1> DEFINE e == IF memory[c].tile = "chest"
                  THEN [memory[c].entities EXCEPT !["chest"] = NoData]
                  ELSE IF memory[c].tile \in {"furnace", "burning"}
                       THEN [memory[c].entities EXCEPT !["furnace"] = NoData]
                  ELSE memory[c].entities
             m == [memory[c] EXCEPT !.tile = "air", !.changed = TRUE, !.used = TRUE,
                                    !.entities = e]
             p == [past[c] EXCEPT !.tile = "air", !.chest = NoData,
                                  !.stale = @ \/ past[c].saves > 0]
  <1>1. /\ memory[c] \in MapChunk /\ Remembered(memory[c], past[c])
        /\ file[c] \in Stored \union {NoData} /\ past[c] \in Past /\ edits \in Nat
        /\ file = [file EXCEPT ![c] = file[c]]
        /\ memory \in [StoreChunk -> MapChunk \union {NoData}]
        /\ past \in [StoreChunk -> Past]
    BY ChunkTypes DEF BreakTile, StoreIInv, StoreTypes
  <1>2. /\ memory' = [memory EXCEPT ![c] = m] /\ past' = [past EXCEPT ![c] = p]
        /\ file' = file /\ edits' = edits
    BY <1>1 DEF BreakTile, WithBlock, MapChunk
  <1>3. e \in [Kind -> Nat \union {NoData}]
    BY <1>1 DEF MapChunk
  <1> HIDE DEF e
  <1>4. /\ m \in MapChunk /\ m.tile = "air" /\ m.changed /\ m.list = memory[c].list
    BY <1>1, <1>3 DEF MapChunk, Tile
  <1>5. /\ p \in Past /\ p.tile = "air" /\ p.chest = NoData
        /\ p.saves = past[c].saves
    <2>1. (past[c].stale \/ past[c].saves > 0) \in BOOLEAN
      OBVIOUS
    <2>2. QED
      BY <1>1, <2>1 DEF Past, Tile
  <1> HIDE DEF m, p
  <1>7. Remembered(m, p)
    BY <1>1, <1>4, <1>5 DEF Remembered
  <1>8. Kept(m, file[c], p)
    BY <1>4, <1>7, ChangedChunk
  <1>9. QED
    BY <1>1, <1>2, <1>4, <1>5, <1>8, OneChunk

(* A click in a window changes the data, and marks the chunk. *)
LEMMA ClickIInv ==
    ASSUME StoreIInv, NEW c \in StoreChunk, NEW k \in Kind, Click(c, k)
    PROVE  StoreIInv'
  <1> DEFINE n == edits + 1
             e == [memory[c].entities EXCEPT ![k] = n]
             m == [memory[c] EXCEPT !.changed = TRUE, !.entities = e]
             p == [past[c] EXCEPT !.chest = IF k = "chest" THEN n ELSE @,
                                  !.stale = @ \/ (k = "chest" /\ past[c].saves > 0)]
  <1>1. /\ memory[c] \in MapChunk /\ Remembered(memory[c], past[c])
        /\ file[c] \in Stored \union {NoData} /\ past[c] \in Past /\ edits \in Nat
        /\ file = [file EXCEPT ![c] = file[c]]
        /\ memory \in [StoreChunk -> MapChunk \union {NoData}]
        /\ past \in [StoreChunk -> Past]
    BY ChunkTypes DEF Click, StoreIInv, StoreTypes
  <1>2. /\ memory' = [memory EXCEPT ![c] = m] /\ past' = [past EXCEPT ![c] = p]
        /\ file' = file /\ edits' = n
    BY <1>1 DEF Click, Clicked, MapChunk
  <1>3. /\ k = "chest" => memory[c].tile = "chest"
        /\ k # "chest" => k = "furnace" /\ memory[c].tile # "chest"
    BY DEF Click
  <1>4. n \in Nat /\ e \in [Kind -> Nat \union {NoData}] /\ e[k] = n
    BY <1>1 DEF MapChunk
  <1> HIDE DEF e, n
  <1>5. /\ m \in MapChunk /\ m.tile = memory[c].tile /\ m.changed /\ m.entities = e
        /\ m.list = memory[c].list
    BY <1>1, <1>4 DEF MapChunk
  <1>6. /\ p \in Past /\ p.tile = past[c].tile /\ p.saves = past[c].saves
        /\ p.chest = (IF k = "chest" THEN n ELSE past[c].chest)
        /\ k = "chest" /\ ~p.stale => ~(past[c].saves > 0)
        /\ ~p.stale => ~past[c].stale
    <2>1. (past[c].stale \/ (k = "chest" /\ past[c].saves > 0)) \in BOOLEAN
      OBVIOUS
    <2>2. QED
      BY <1>1, <1>4, <2>1 DEF Past
  <1>7. k = "chest" => p.saves = 0 \/ p.stale
    BY <1>1, <1>6 DEF Past
  <1> HIDE DEF m, p
  <1>8. Remembered(m, p)
    BY <1>1, <1>3, <1>4, <1>5, <1>6, <1>7 DEF Remembered
  <1>9. Kept(m, file[c], p)
    BY <1>5, <1>8, ChangedChunk
  <1>10. QED
    BY <1>1, <1>2, <1>4, <1>5, <1>6, <1>9, OneChunk

(* The text of a sign is of no matter to blocks and chests. *)
LEMMA UpdateSignIInv == ASSUME StoreIInv, NEW c \in StoreChunk, UpdateSign(c) PROVE StoreIInv'
  <1> DEFINE n == edits + 1
             e == [memory[c].entities EXCEPT !["sign"] = n]
             m == [memory[c] EXCEPT !.entities = e]
  <1>1. /\ memory[c] \in MapChunk /\ Remembered(memory[c], past[c])
        /\ file[c] \in Stored \union {NoData} /\ past[c] \in Past /\ edits \in Nat
        /\ file = [file EXCEPT ![c] = file[c]] /\ past = [past EXCEPT ![c] = past[c]]
        /\ Kept(memory[c], file[c], past[c])
        /\ memory \in [StoreChunk -> MapChunk \union {NoData}]
    BY ChunkTypes DEF UpdateSign, StoreIInv, StoreTypes
  <1>2. /\ memory' = [memory EXCEPT ![c] = m] /\ past' = past
        /\ file' = file /\ edits' = n
    BY <1>1 DEF UpdateSign, MapChunk
  <1>3. /\ n \in Nat /\ e \in [Kind -> Nat \union {NoData}]
        /\ e["chest"] = memory[c].entities["chest"]
    BY <1>1 DEF MapChunk, Kind
  <1> HIDE DEF e, n
  <1>4. /\ m \in MapChunk /\ m.tile = memory[c].tile /\ m.entities = e
        /\ m.changed = memory[c].changed /\ m.list = memory[c].list
    BY <1>1, <1>3 DEF MapChunk
  <1> HIDE DEF m
  <1>5. Kept(m, file[c], past[c])
    BY <1>1, <1>3, <1>4, NoDataAssumption DEF Kept, Remembered
  <1>6. QED
    BY ZenonT(30), <1>1, <1>2, <1>3, <1>4, <1>5, OneChunk

(* A furnace that goes on or out changes its block, and marks the chunk. *)
LEMMA FlipFurnaceIInv == ASSUME StoreIInv, NEW c \in StoreChunk, FlipFurnace(c) PROVE StoreIInv'
  <1> DEFINE tile == IF memory[c].tile = "furnace" THEN "burning" ELSE "furnace"
             m == [memory[c] EXCEPT !.tile = tile, !.changed = TRUE, !.used = TRUE]
             p == [past[c] EXCEPT !.tile = tile]
  <1>1. /\ memory[c] \in MapChunk /\ Remembered(memory[c], past[c])
        /\ file[c] \in Stored \union {NoData} /\ past[c] \in Past /\ edits \in Nat
        /\ file = [file EXCEPT ![c] = file[c]]
        /\ memory \in [StoreChunk -> MapChunk \union {NoData}]
        /\ past \in [StoreChunk -> Past]
    BY ChunkTypes DEF FlipFurnace, StoreIInv, StoreTypes
  <1>2. /\ memory' = [memory EXCEPT ![c] = m] /\ past' = [past EXCEPT ![c] = p]
        /\ file' = file /\ edits' = edits
    BY <1>1 DEF FlipFurnace, WithBlock
  <1>3. memory[c].tile # "chest" /\ tile # "chest" /\ tile \in Tile
    BY DEF FlipFurnace, Tile, Kind
  <1> HIDE DEF tile
  <1>4. m \in MapChunk /\ m.tile = tile /\ m.changed /\ m.list = memory[c].list
    BY <1>1, <1>3 DEF MapChunk
  <1>5. /\ p \in Past /\ p.tile = tile /\ p.chest = past[c].chest
        /\ p.saves = past[c].saves
    BY <1>1, <1>3 DEF Past
  <1> HIDE DEF m, p
  <1>6. Remembered(m, p)
    BY <1>1, <1>3, <1>4, <1>5 DEF Remembered
  <1>7. Kept(m, file[c], p)
    BY <1>4, <1>6, ChangedChunk
  <1>8. QED
    BY <1>1, <1>2, <1>4, <1>5, <1>7, OneChunk

(* A chunk nobody uses loses nothing before it is released. *)
LEMMA RestIInv == ASSUME StoreIInv, NEW c \in StoreChunk, Rest(c) PROVE StoreIInv'
  <1> DEFINE m == [memory[c] EXCEPT !.used = FALSE]
  <1>1. /\ memory[c] \in MapChunk
        /\ file[c] \in Stored \union {NoData} /\ past[c] \in Past /\ edits \in Nat
        /\ file = [file EXCEPT ![c] = file[c]] /\ past = [past EXCEPT ![c] = past[c]]
        /\ Kept(memory[c], file[c], past[c])
    BY ChunkTypes DEF Rest
  <1>2. /\ memory' = [memory EXCEPT ![c] = m] /\ past' = past
        /\ file' = file /\ edits' = edits
    BY DEF Rest
  <1>3. /\ m \in MapChunk /\ m.tile = memory[c].tile /\ m.list = memory[c].list
        /\ m.entities = memory[c].entities /\ m.changed = memory[c].changed
    BY <1>1 DEF MapChunk
  <1> HIDE DEF m
  <1>4. Kept(m, file[c], past[c])
    BY <1>1, <1>3, NoDataAssumption DEF Kept, Remembered
  <1>5. QED
    BY ZenonT(30), <1>1, <1>2, <1>3, <1>4, OneChunk

(* What is saved is what the chunk held. *)
LEMMA SaveMapIInv == ASSUME StoreIInv, NEW c \in StoreChunk, SaveMap(c) PROVE StoreIInv'
  <1>1. /\ memory[c] \in MapChunk /\ Kept(memory[c], file[c], past[c])
        /\ file[c] \in Stored \union {NoData} /\ past[c] \in Past /\ edits \in Nat
    BY ChunkTypes DEF SaveMap
  <1>2. /\ memory' = [memory EXCEPT ![c] = AfterSave(memory[c])]
        /\ file' = [file EXCEPT ![c] = FileAfter(memory[c], file[c])]
        /\ past' = [past EXCEPT ![c] = PastSave(memory[c], past[c])]
        /\ edits' = edits
    BY DEF SaveMap
  <1>3. QED
    BY <1>1, <1>2, SaveKept, OneChunk

(* A chunk is saved before it is released, if it has to be. *)
LEMMA ReleaseMapIInv == ASSUME StoreIInv, NEW c \in StoreChunk, ReleaseMap(c) PROVE StoreIInv'
  <1>1. /\ memory[c] \in MapChunk /\ Kept(memory[c], file[c], past[c])
        /\ file[c] \in Stored \union {NoData} /\ past[c] \in Past /\ edits \in Nat
    BY ChunkTypes DEF ReleaseMap
  <1>2. /\ memory' = [memory EXCEPT ![c] = NoData]
        /\ file' = [file EXCEPT ![c] = FileAfter(memory[c], file[c])]
        /\ past' = [past EXCEPT ![c] = PastSave(memory[c], past[c])]
        /\ edits' = edits
    BY DEF ReleaseMap
  <1>3. QED
    BY <1>1, <1>2, SaveKept, OneChunk

(* All chunks are saved as one is. *)
LEMMA SaveWholeMapIInv == ASSUME StoreIInv, SaveWholeMap PROVE StoreIInv'
  <1>1. /\ memory' = [c \in StoreChunk |->
                         IF Loaded(c) THEN AfterSave(memory[c]) ELSE NoData]
        /\ file' = [c \in StoreChunk |->
                       IF Loaded(c) THEN FileAfter(memory[c], file[c]) ELSE file[c]]
        /\ past' = [c \in StoreChunk |->
                       IF Loaded(c) THEN PastSave(memory[c], past[c]) ELSE past[c]]
        /\ edits' = edits
    BY DEF SaveWholeMap
  <1>2. ASSUME NEW c \in StoreChunk
        PROVE  /\ memory'[c] \in MapChunk \union {NoData}
               /\ file'[c] \in Stored \union {NoData}
               /\ past'[c] \in Past
               /\ Kept(memory'[c], file'[c], past'[c])
    <2>1. /\ Loaded(c) => memory[c] \in MapChunk
          /\ file[c] \in Stored \union {NoData} /\ past[c] \in Past
          /\ Kept(memory[c], file[c], past[c])
      BY ChunkTypes
    <2>2. CASE Loaded(c)
      <3>1. /\ memory'[c] = AfterSave(memory[c])
            /\ file'[c] = FileAfter(memory[c], file[c])
            /\ past'[c] = PastSave(memory[c], past[c])
        BY <1>1, <2>2
      <3>2. QED
        BY <2>1, <2>2, <3>1, SaveKept
    <2>3. CASE ~Loaded(c)
      <3>1. memory'[c] = NoData /\ file'[c] = file[c] /\ past'[c] = past[c]
        BY <1>1, <2>3
      <3>2. memory[c] = NoData
        BY <2>3 DEF Loaded
      <3>3. QED
        BY <2>1, <3>1, <3>2
    <2>4. QED
      BY <2>2, <2>3
  <1>3. edits' \in Nat
    BY <1>1 DEF StoreIInv, StoreTypes
  <1>4. StoreTypes'
    BY <1>1, <1>2, <1>3 DEF StoreTypes
  <1>5. QED
    BY <1>2, <1>4 DEF StoreIInv

(* What was changed since the last save is lost, and said to be. *)
LEMMA DieIInv == ASSUME StoreIInv, Die PROVE StoreIInv'
  <1>1. /\ memory' = [c \in StoreChunk |-> NoData]
        /\ past' = [c \in StoreChunk |->
                       IF Loaded(c) THEN [past[c] EXCEPT !.lost = TRUE] ELSE past[c]]
        /\ file' = file /\ edits' = edits
    BY DEF Die
  <1>2. ASSUME NEW c \in StoreChunk
        PROVE  past'[c] \in Past /\ Kept(memory'[c], file'[c], past'[c])
    <2>1. past[c] \in Past /\ Kept(memory[c], file[c], past[c])
      BY ChunkTypes
    <2>2. memory'[c] = NoData /\ file'[c] = file[c]
      BY <1>1
    <2>3. CASE Loaded(c)
      <3>1. past'[c] = [past[c] EXCEPT !.lost = TRUE]
        BY <1>1, <2>3
      <3>2. past'[c] \in Past /\ past'[c].lost
        BY <2>1, <3>1 DEF Past
      <3>3. QED
        BY <2>2, <3>2 DEF Kept
    <2>4. CASE ~Loaded(c)
      <3>1. past'[c] = past[c] /\ memory[c] = NoData
        BY <1>1, <2>4 DEF Loaded
      <3>2. QED
        BY <2>1, <2>2, <3>1
    <2>5. QED
      BY <2>3, <2>4
  <1>3. StoreTypes'
    BY <1>1, <1>2 DEF StoreIInv, StoreTypes
  <1>4. QED
    BY <1>2, <1>3 DEF StoreIInv

(* The cases together. *)
LEMMA StoreNextIInv == ASSUME StoreIInv, [StoreNext]_storeVars PROVE StoreIInv'
  <1>1. CASE UNCHANGED storeVars
    BY <1>1 DEF storeVars, StoreIInv, StoreTypes
  <1>2. ASSUME NEW c \in StoreChunk, LoadMap(c) PROVE StoreIInv'
    BY <1>2, LoadMapIInv
  <1>3. ASSUME NEW c \in StoreChunk, BreakTile(c) PROVE StoreIInv'
    BY <1>3, BreakTileIInv
  <1>4. ASSUME NEW c \in StoreChunk, UpdateSign(c) PROVE StoreIInv'
    BY <1>4, UpdateSignIInv
  <1>5. ASSUME NEW c \in StoreChunk, FlipFurnace(c) PROVE StoreIInv'
    BY <1>5, FlipFurnaceIInv
  <1>6. ASSUME NEW c \in StoreChunk, SaveMap(c) PROVE StoreIInv'
    BY <1>6, SaveMapIInv
  <1>7. ASSUME NEW c \in StoreChunk, Rest(c) PROVE StoreIInv'
    BY <1>7, RestIInv
  <1>8. ASSUME NEW c \in StoreChunk, ReleaseMap(c) PROVE StoreIInv'
    BY <1>8, ReleaseMapIInv
  <1>9. ASSUME NEW c \in StoreChunk, NEW k \in Kind, PlaceTile(c, k) PROVE StoreIInv'
    BY <1>9, PlaceTileIInv
  <1>10. ASSUME NEW c \in StoreChunk, NEW k \in Kind, Click(c, k) PROVE StoreIInv'
    BY <1>10, ClickIInv
  <1>11. CASE SaveWholeMap
    BY <1>11, SaveWholeMapIInv
  <1>12. CASE Die
    BY <1>12, DieIInv
  <1>13. QED
    BY <1>1, <1>2, <1>3, <1>4, <1>5, <1>6, <1>7, <1>8, <1>9, <1>10, <1>11, <1>12
       DEF StoreNext

(* The inductive invariant holds throughout. *)
THEOREM StoreInvariance == StoreSpec => []StoreIInv
  BY StoreInitIInv, StoreNextIInv, PTL DEF StoreSpec

(* No handler that changes a block leaves the chunk unmarked: when a chunk is
   released, or not marked as changed, its blocks are in the file, for any
   number of chunks and edits and any size the file takes (setBlock, saveMap,
   releaseMap, loadMap).                                                     *)
THEOREM BlocksKept == StoreSpec => []BlocksAreKept
  <1>1. StoreIInv => BlocksAreKept
    BY DEF StoreIInv, Kept, OnDisk, BlocksAreKept, Loaded
  <1>2. QED
    BY StoreInvariance, <1>1, PTL

(* A chest that was not used after the first save since its chunk was loaded is
   in the file as the entry that loading takes, although every save of a
   loaded chunk adds its entries to those of the saves before (saveMap,
   loadMap).                                                                *)
THEOREM ChestKept == StoreSpec => []ChestIsKept
  <1>1. StoreIInv => ChestIsKept
    BY DEF StoreIInv, Kept, OnDisk, ChestIsKept, Loaded
  <1>2. QED
    BY StoreInvariance, <1>1, PTL
==============================================================================

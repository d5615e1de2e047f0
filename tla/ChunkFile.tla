------------------------------ MODULE ChunkFile ------------------------------
(***************************************************************************)
(* What a region file promises Map: one version of every chunk is kept and *)
(* read back, saving a chunk touches no other one, and a crash can harm    *)
(* only the chunk that was being saved.  RegionFile.tla implements it.     *)
(***************************************************************************)
CONSTANTS
    Chunk,      \* the chunks of one region
    Version,    \* what a chunk may be saved as: records with a field `chunk`
    Refuse,     \* versions that are too large to be kept
    Nothing     \* the chunk cannot be read: Map generates it anew

VARIABLES
    stored,    \* what reading each chunk returns
    saving     \* the version that is being saved, or Nothing

FileInit == stored = [c \in Chunk |-> Nothing] /\ saving = Nothing

Begin(v) == saving = Nothing /\ saving' = v /\ UNCHANGED stored

Finish(v) ==
    /\ saving = v
    /\ saving' = Nothing
    /\ stored' = IF v \in Refuse THEN stored ELSE [stored EXCEPT ![v.chunk] = v]

\* Half a save: the chunk is the old one, the new one, what an older save of
\* any chunk left in the sectors, or unreadable.
CrashWhileSaving(v) ==
    /\ saving = v
    /\ saving' = Nothing
    /\ \E w \in Version \union {Nothing} :
           stored' = [stored EXCEPT ![v.chunk] = w]

FileNext == \E v \in Version : Begin(v) \/ Finish(v) \/ CrashWhileSaving(v)

FileSpec == FileInit /\ [][FileNext]_<<stored, saving>>
=============================================================================

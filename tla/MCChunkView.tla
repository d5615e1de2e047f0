----------------------------- MODULE MCChunkView -----------------------------
(* ChunkView on strips of chunks: the two axes behave alike, and every case
   of the queues shows on one of them.                                      *)
EXTENDS ChunkView, TLC

Strip(n) == {<<x, 0>> : x \in 0 .. n}
Strip1 == Strip(1)
Strip5 == Strip(5)
Origin == <<0, 0>>
Last == {<<5, 0>>}
Nothing == {}
Players == Permutations(User)
=============================================================================

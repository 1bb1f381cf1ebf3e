---- MODULE MCPlayback ----
(* Playback of a book of short files.                                           *)
EXTENDS Playback

CONSTANTS a, b, c, d

MCTracks == {a, b, c, d}

(* Shorter than a chunk of 2, exactly one chunk, one byte more, and empty.      *)
MCSizeOf == [t \in MCTracks |-> CASE t = a -> 1 [] t = b -> 2 [] t = c -> 3 [] t = d -> 0]

Listed(tracks, indices) ==
  [i \in 1..Len(tracks) |-> [track |-> tracks[i], index |-> indices[i]]]

(* Files that carry their own index, from 0 or from 1, may leave the book and   *)
(* come back; files that carry none are listed the same way each time.          *)
Excerpts(files) ==
  {SelectSeq(files, LAMBDA f : f.track \in kept) : kept \in (SUBSET {a, b, c}) \ {{}}}

MCListsOf ==
  [k \in {"from0", "from1", "plain"} |->
     CASE k = "from0" -> Excerpts(Listed(<<a, b, c>>, <<0, 1, 2>>))
       [] k = "from1" -> Excerpts(Listed(<<c, a, b>>, <<1, 2, 3>>))
       [] k = "plain" -> {Listed(<<a, d, c, b>>, <<0, 0, 0, 0>>)}]

(* The index of a file that was given or counted once is never another's.       *)
ASSUME ListsAssumption == IndexNamesTrack
====

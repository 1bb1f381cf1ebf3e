---- MODULE BookFiles ----
(* The file list of a book: how the client completes the indices BookWarehouse  *)
(* gave (internal/bookwarehouse/types.go) and how the stream handler looks one  *)
(* up (internal/stream). A file is a record with an index, or 0 without one.    *)
EXTENDS Integers, Sequences

(* Mutant: the position is shifted although the code counts it from 0 already. *)
NormaliseTwice(files) ==
  [i \in 1..Len(files) |->
     IF files[i].index = 0 THEN [files[i] EXCEPT !.index = i - 2] ELSE files[i]]

(* BookDetail.UnmarshalJSON: a file after the first that has no index, or 0, is *)
(* given its position, which the code counts from 0.                            *)
Normalise(files) ==
  [i \in 1..Len(files) |->
     IF files[i].index = 0 THEN [files[i] EXCEPT !.index = i - 1] ELSE files[i]]

Matches(files, idx) == {i \in 1..Len(files) : files[i].index = idx}

(* Mutant: without a match the index counts as a position. *)
FindFileAnyway(files, idx) ==
  IF Matches(files, idx) # {}
  THEN {i \in Matches(files, idx) : \A j \in Matches(files, idx) : i <= j}
  ELSE {i \in 1..Len(files) : i = idx + 1}

(* Mutant: index 0 is not looked for among the indices. *)
FindFileNotZero(files, idx) ==
  IF idx # 0 /\ Matches(files, idx) # {}
  THEN {i \in Matches(files, idx) : \A j \in Matches(files, idx) : i <= j}
  ELSE {i \in 1..Len(files) : i = idx + 1 /\ \A j \in 1..Len(files) : files[j].index = 0}

(* findFile, as the set of the one position it returns: the first file with the *)
(* index, or the position itself when no file has an index.                     *)
FindFile(files, idx) ==
  IF Matches(files, idx) # {}
  THEN {i \in Matches(files, idx) : \A j \in Matches(files, idx) : i <= j}
  ELSE {i \in 1..Len(files) : i = idx + 1 /\ \A j \in 1..Len(files) : files[j].index = 0}
====

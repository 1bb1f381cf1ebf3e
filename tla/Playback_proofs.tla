---- MODULE Playback_proofs ----
(* Theorems about Playback, for any books, file sizes, chunk and int64: types,  *)
(* the bound of a response, and what the player has heard.                      *)
EXTENDS Playback, BookFiles_proofs, SequenceTheorems

----
(* The file list (BookFiles)                                                    *)

LEMMA NormaliseFields ==
  ASSUME NEW files \in Seq(File)
  PROVE  /\ Normalise(files) \in Seq(File)
         /\ Len(Normalise(files)) = Len(files)
         /\ \A i \in 1..Len(files) :
              /\ Normalise(files)[i].track = files[i].track
              /\ Normalise(files)[i].index =
                   IF files[i].index = 0 THEN i - 1 ELSE files[i].index
<1>1. \A i \in 1..Len(files) :
        files[i] \in File /\ files[i].track \in Tracks /\ files[i].index \in Nat
  <2>1. \A i \in 1..Len(files) : files[i] \in File
    OBVIOUS
  <2> QED BY <2>1 DEF File
<1>2. \A i \in 1..Len(files) : [files[i] EXCEPT !.index = i - 1] =
                                 [track |-> files[i].track, index |-> i - 1]
  <2>1. ASSUME NEW f \in File, NEW n
        PROVE  [f EXCEPT !.index = n] = [track |-> f.track, index |-> n]
    <3>1. f = [track |-> f.track, index |-> f.index]
      BY DEF File
    <3> QED BY <3>1
  <2> QED BY <1>1, <2>1
<1>3. \A i \in 1..Len(files) :
        /\ Normalise(files)[i] \in File
        /\ Normalise(files)[i].track = files[i].track
        /\ Normalise(files)[i].index = IF files[i].index = 0 THEN i - 1 ELSE files[i].index
  BY <1>1, <1>2 DEF File, Normalise
<1>4. Normalise(files) = [i \in 1..Len(files) |-> Normalise(files)[i]]
  BY DEF Normalise
<1>5. Len(files) \in Nat
  OBVIOUS
<1>6. Len(Normalise(files)) = Len(files)
  BY <1>5 DEF Normalise
<1>7. Normalise(files) \in [1..Len(files) -> File]
  BY <1>3 DEF Normalise
<1>8. Normalise(files) \in Seq(File)
  BY <1>5, <1>7
<1> QED BY <1>3, <1>6, <1>8

(* After Normalise the handler's fallback to a position never decides: a file   *)
(* that has index idx is found if there is one, and otherwise none.             *)
LEMMA FindFileByIndex ==
  ASSUME NEW files \in Seq(File), NEW idx \in Nat
  PROVE  /\ \A i \in FindFile(Normalise(files), idx) :
              i \in 1..Len(files) /\ Normalise(files)[i].index = idx
         /\ (\E i \in 1..Len(files) : Normalise(files)[i].index = idx)
              => FindFile(Normalise(files), idx) # {}
<1> DEFINE all == Normalise(files)
<1>1. /\ Len(all) = Len(files) /\ Len(files) \in Nat
      /\ \A i \in 1..Len(files) : all[i].index = IF files[i].index = 0 THEN i - 1 ELSE files[i].index
  BY NormaliseFields
<1>2. Matches(all, idx) = {i \in 1..Len(files) : all[i].index = idx}
  BY <1>1 DEF Matches
<1> HIDE DEF all
<1>3. ASSUME NEW i \in FindFile(all, idx)
      PROVE  i \in 1..Len(files) /\ all[i].index = idx
  <2>1. CASE Matches(all, idx) # {}
    BY <1>2, <1>3, <2>1 DEF FindFile
  <2>2. CASE Matches(all, idx) = {}
    <3>1. i \in 1..Len(files) /\ i = idx + 1 /\ \A j \in 1..Len(files) : all[j].index = 0
      BY <1>1, <1>3, <2>2 DEF FindFile
    <3>2. files[i].index = 0 /\ i = 1
      BY <1>1, <3>1
    <3> QED BY <3>1, <3>2
  <2> QED BY <2>1, <2>2
<1>4. ASSUME NEW i \in 1..Len(files), all[i].index = idx
      PROVE  FindFile(all, idx) # {}
  <2>1. Matches(all, idx) # {}
    BY <1>2, <1>4
  <2>2. PICK k \in Matches(all, idx) : \A j \in Matches(all, idx) : k <= j
    BY <1>1, <1>2, <2>1, FirstPosition
  <2> QED BY <2>1, <2>2 DEF FindFile
<1> QED BY <1>3, <1>4 DEF all

----
(* int64                                                                        *)

LEMMA SmallRemainder ==
  ASSUME NEW n \in Nat, NEW m \in Nat, n < m
  PROVE  n % m = n
  OBVIOUS

LEMMA WrapWithin ==
  ASSUME NEW n \in Int, -MaxInt - 1 <= n, n <= MaxInt
  PROVE  Wrap(n) = n
<1>1. MaxInt \in Nat /\ n + MaxInt + 1 \in Nat /\ 2 * (MaxInt + 1) \in Nat
      /\ n + MaxInt + 1 < 2 * (MaxInt + 1)
  BY PlaybackAssumption
<1>2. (n + MaxInt + 1) % (2 * (MaxInt + 1)) = n + MaxInt + 1
  BY <1>1, SmallRemainder
<1> QED BY <1>1, <1>2 DEF Wrap

LEMMA WrapOver ==
  Wrap(MaxInt + 1) = -(MaxInt + 1)
<1>1. MaxInt \in Nat
  BY PlaybackAssumption
<1>2. (MaxInt + 1 + MaxInt + 1) = 2 * (MaxInt + 1)
  BY <1>1
<1>3. (2 * (MaxInt + 1)) % (2 * (MaxInt + 1)) = 0
  BY <1>1
<1> QED BY <1>1, <1>2, <1>3 DEF Wrap

----
(* One response                                                                 *)

(* What a player that has n bytes of a file may ask for. *)
AskedAt(n) ==
  {[first |-> n, last |-> last] : last \in {Absent} \cup {e \in SpanEnds : e >= n}}
  \cup {h \in {NoHeader} : n = 0}
  \cup {[first |-> Absent, last |-> m] : m \in Suffixes}

(* The player names no range that the handler would let through too long. *)
AsksShort == MaxInt \notin SpanEnds /\ \A m \in Suffixes : m <= Chunk

LEMMA AskedHeader ==
  ASSUME NEW n \in Nat, NEW h \in AskedAt(n)
  PROVE  \/ h = NoHeader /\ n = 0
         \/ /\ h # NoHeader /\ h.first = n /\ h.first # Absent
            /\ \/ h.last = Absent
               \/ h.last # Absent /\ h.last \in SpanEnds /\ h.last \in n..MaxInt
         \/ /\ h # NoHeader /\ h.first = Absent
            /\ h.last \in Suffixes /\ h.last \in 1..MaxInt
<1>1. /\ Absent \notin Int /\ MaxInt \in Nat
      /\ SpanEnds \subseteq 0..MaxInt /\ Suffixes \subseteq 1..MaxInt
  BY PlaybackAssumption
<1>2. CASE h = NoHeader /\ n = 0
  BY <1>2
<1>3. CASE \E last \in {Absent} \cup {e \in SpanEnds : e >= n} : h = [first |-> n, last |-> last]
  <2>1. PICK last \in {Absent} \cup {e \in SpanEnds : e >= n} : h = [first |-> n, last |-> last]
    BY <1>3
  <2>2. h.first = n /\ h.last = last /\ n # Absent
    BY <1>1, <2>1
  <2>3. h # NoHeader
    BY <2>2 DEF NoHeader
  <2>4. last = Absent \/ (last \in SpanEnds /\ last \in n..MaxInt /\ last # Absent)
    <3>1. CASE last \in SpanEnds /\ last >= n
      <4>1. last \in 0..MaxInt
        BY <1>1, <3>1
      <4> QED BY <1>1, <3>1, <4>1
    <3> QED BY <2>1, <3>1
  <2> QED BY <2>2, <2>3, <2>4
<1>4. ASSUME NEW m \in Suffixes, h = [first |-> Absent, last |-> m]
      PROVE  h # NoHeader /\ h.first = Absent /\ h.last = m /\ m \in 1..MaxInt
  <2>1. m \in 1..MaxInt /\ m # Absent
    BY <1>1
  <2> QED BY <1>4, <2>1 DEF NoHeader
<1> QED BY <1>2, <1>3, <1>4 DEF AskedAt

(* The response to a header that the handler leaves as it is or cuts. *)
LEMMA ServeFrom ==
  ASSUME NEW n \in Nat, NEW size \in Nat, NEW h,
         h # NoHeader, h.first = n, h.first # Absent,
         NEW last \in Int, last = IF h.last = Absent THEN size - 1 ELSE h.last
  PROVE  LET part == ServeContent(h, size)
         IN /\ part \in [from : Nat, count : Nat]
            /\ part.from + part.count <= size
            /\ size > 0 => part.count <= IF last < n THEN 0 ELSE last - n + 1
            /\ size = 0 => part.count = 0
<1>1. CASE size = 0
  BY <1>1 DEF ServeContent
<1>2. CASE size > 0
  <2> DEFINE end == IF h.last = Absent THEN size - 1 ELSE Least(h.last, size - 1)
  <2>1. end \in Int /\ end <= size - 1 /\ end <= last
    BY <1>2 DEF Least
  <2>2. ServeContent(h, size) = IF n > end THEN NoReply ELSE [from |-> n, count |-> end - n + 1]
    BY <1>2 DEF ServeContent
  <2> HIDE DEF end
  <2> QED BY <1>2, <2>1, <2>2 DEF NoReply
<1> QED BY <1>1, <1>2

(* Whatever the player asks for, the response lies within the file; and it is   *)
(* no longer than a chunk, unless the last byte asked for is the largest int64, *)
(* which makes the length of the range overflow, or a suffix is longer.         *)
LEMMA ServeBounds ==
  ASSUME NEW size \in Nat, size + Chunk <= MaxInt,
         NEW n \in Nat, n + Chunk <= MaxInt, NEW h \in AskedAt(n)
  PROVE  LET part == ServeContent(Clamped(h, size), size)
         IN /\ part \in [from : Nat, count : Nat]
            /\ part.from + part.count <= size
            /\ AsksShort => part.count <= Chunk
<1> USE PlaybackAssumption
<1>0. Chunk \in Nat \ {0} /\ MaxInt \in Nat /\ Absent \notin Int
  OBVIOUS
<1>c. ASSUME NEW m \in Nat, m + Chunk <= MaxInt
      PROVE  LET part == ServeContent(OneChunk(m), size)
             IN /\ part \in [from : Nat, count : Nat]
                /\ part.from + part.count <= size
                /\ part.count <= Chunk
  <2>1. OneChunk(m) = [first |-> m, last |-> m + Chunk - 1]
    BY <1>0, <1>c, WrapWithin DEF OneChunk
  <2>2. /\ OneChunk(m) # NoHeader /\ OneChunk(m).first = m /\ OneChunk(m).first # Absent
        /\ OneChunk(m).last = m + Chunk - 1 /\ m + Chunk - 1 \in Int
        /\ OneChunk(m).last # Absent
    BY <1>0, <2>1 DEF NoHeader
  <2> DEFINE hh == OneChunk(m)
             last == m + Chunk - 1
  <2>3. last = IF hh.last = Absent THEN size - 1 ELSE hh.last
    BY <2>2
  <2> HIDE DEF hh, last
  <2>4. LET part == ServeContent(hh, size)
        IN /\ part \in [from : Nat, count : Nat]
           /\ part.from + part.count <= size
           /\ size > 0 => part.count <= IF last < m THEN 0 ELSE last - m + 1
           /\ size = 0 => part.count = 0
    BY <2>2, <2>3, ServeFrom DEF hh, last
  <2> QED BY <1>0, <2>4 DEF hh, last
<1>1. CASE h = NoHeader
  <2>0. h.first = Absent
    BY <1>1 DEF NoHeader
  <2>3. Clamped(h, size) = IF size > Chunk THEN OneChunk(0) ELSE h
    BY <1>1, <2>0 DEF Clamped
  <2>1. CASE size > Chunk
    <3>1. 0 \in Nat /\ 0 + Chunk <= MaxInt
      BY <1>0
    <3> QED BY <1>c, <2>1, <2>3, <3>1
  <2>2. CASE ~(size > Chunk)
    <3>1. ServeContent(Clamped(h, size), size) = [from |-> 0, count |-> size]
      BY <1>1, <2>0, <2>2, <2>3 DEF ServeContent
    <3> QED BY <1>0, <2>2, <3>1
  <2> QED BY <2>1, <2>2
<1>2. CASE h # NoHeader /\ h.first # Absent
  <2> DEFINE last == IF h.last = Absent THEN size - 1 ELSE h.last
  <2>1. /\ h.first = n /\ h.first # Absent
        /\ h.last = Absent \/ (h.last # Absent /\ h.last \in SpanEnds /\ h.last \in n..MaxInt)
    BY <1>2, AskedHeader
  <2>2. /\ last \in Int /\ -MaxInt - 1 <= last - n /\ last - n <= MaxInt
        /\ MaxInt \notin SpanEnds => last - n < MaxInt
        /\ last - n = MaxInt => MaxInt \in SpanEnds
    BY <1>0, <2>1
  <2>3. Clamped(h, size) = IF Wrap(Wrap(last - h.first) + 1) > Chunk THEN OneChunk(n) ELSE h
    BY <1>2, <2>1 DEF Clamped
  <2>4. Wrap(last - h.first) = last - n
    BY <2>1, <2>2, WrapWithin
  <2>5. CASE Wrap(Wrap(last - h.first) + 1) > Chunk
    BY <1>c, <2>3, <2>5
  <2>6. CASE ~(Wrap(Wrap(last - h.first) + 1) > Chunk)
    <3>1. Clamped(h, size) = h
      BY <2>3, <2>6
    <3>2. AsksShort => last - n + 1 <= Chunk
      <4>1. ASSUME MaxInt \notin SpanEnds PROVE Wrap(last - n + 1) = last - n + 1
        BY <1>0, <2>2, <4>1, WrapWithin
      <4> QED BY <1>0, <2>2, <2>4, <2>6, <4>1 DEF AsksShort
    <3> HIDE DEF last
    <3>3. last = IF h.last = Absent THEN size - 1 ELSE h.last
      BY DEF last
    <3>4. LET part == ServeContent(h, size)
          IN /\ part \in [from : Nat, count : Nat]
             /\ part.from + part.count <= size
             /\ size > 0 => part.count <= IF last < n THEN 0 ELSE last - n + 1
             /\ size = 0 => part.count = 0
      BY <1>2, <2>1, <2>2, <3>3, ServeFrom
    <3> QED BY <1>0, <2>2, <3>1, <3>2, <3>4
  <2> QED BY <2>5, <2>6
<1>3. CASE h # NoHeader /\ h.first = Absent
  <2>1. h.last \in Suffixes /\ h.last \in Nat
    BY <1>0, <1>3, AskedHeader
  <2>2. Clamped(h, size) = h
    BY <1>3 DEF Clamped
  <2>3. CASE size = 0
    BY <1>0, <2>2, <2>3 DEF ServeContent
  <2>4. CASE size > 0
    <3>1. ServeContent(h, size) =
            [from |-> size - Least(h.last, size), count |-> Least(h.last, size)]
      BY <1>3, <2>4 DEF ServeContent
    <3>2. Least(h.last, size) \in Nat /\ Least(h.last, size) <= size
          /\ Least(h.last, size) <= h.last
      BY <2>1 DEF Least
    <3>3. AsksShort => h.last <= Chunk
      BY <2>1 DEF AsksShort
    <3> QED BY <1>0, <2>1, <2>2, <3>1, <3>2, <3>3
  <2> QED BY <2>3, <2>4
<1> QED BY <1>1, <1>2, <1>3

----
(* Types                                                                        *)

InItem == {"ask", "verify", "detail", "open"}

(* The player is at a file of the list, or has none yet; *)
AtItem ==
  /\ pc \in InItem => item \in 1..Len(listing)
  /\ pc = "browse" => item = 1 /\ listing = <<>>

(* the request in flight asks from where the player is; *)
AsksOn ==
  /\ pc \in {"verify", "detail", "open"} => header \in AskedAt(Position)
  /\ pc = "open" => found \in Tracks

(* and what it has is no more than a file can hold. *)
HeardFits == \A i \in 1..Len(listing) : Len(heard[i]) + Chunk <= MaxInt

TypeInv == TypeOK /\ AtItem /\ AsksOn /\ HeardFits

LEMMA TypeInit == Init => TypeInv
<1> SUFFICES ASSUME Init PROVE TypeInv
  OBVIOUS
<1> USE PlaybackAssumption DEF Init
<1>1. heard \in [1..Len(listing) -> Seq(Tracks \X Nat)] /\ gone \subseteq 1..Len(listing)
  OBVIOUS
<1>2. header \in Headers /\ reply \in [from : Nat, count : Nat] /\ found \in Tracks \cup {Absent}
  BY DEF NoHeader, NoReply, Headers
<1>3. TypeOK
  BY <1>1, <1>2 DEF TypeOK
<1>4. AtItem /\ AsksOn /\ HeardFits
  BY DEF AtItem, InItem, AsksOn, HeardFits
<1> QED BY <1>3, <1>4 DEF TypeInv

LEMMA PositionType ==
  ASSUME TypeInv, pc \in InItem
  PROVE  /\ item \in 1..Len(listing) /\ listing[item] \in File
         /\ heard[item] \in Seq(Tracks \X Nat) /\ Position \in Nat
         /\ Position + Chunk <= MaxInt /\ Position \in Word
<1>1. item \in 1..Len(listing) /\ Position + Chunk <= MaxInt
  BY DEF TypeInv, AtItem, HeardFits, Position
<1>2. heard[item] \in Seq(Tracks \X Nat) /\ listing[item] \in File
  BY <1>1 DEF TypeInv, TypeOK
<1>3. Position \in Nat
  BY <1>2 DEF Position
<1> QED BY <1>1, <1>2, <1>3, PlaybackAssumption DEF Word

LEMMA TypeBrowse == TypeInv /\ Browse => TypeInv'
<1> SUFFICES ASSUME TypeInv, Browse PROVE TypeInv'
  OBVIOUS
<1> USE PlaybackAssumption
<1>1. CASE Fault /\ UNCHANGED <<listing, heard, pc>>
  BY <1>1 DEF Browse, Fault, TypeInv, TypeOK, AtItem, AsksOn, HeardFits, Position, InItem, book
<1>2. CASE /\ listing' = Normalise(upstream)
           /\ heard' = [i \in 1..Len(upstream) |-> <<>>]
           /\ pc' = IF upstream = <<>> THEN "finished" ELSE "ask"
           /\ UNCHANGED bounds
  <2>1. upstream \in Seq(File) /\ Len(upstream) \in Nat /\ item = 1 /\ gone = {}
    BY DEF TypeInv, TypeOK, AtItem, Browse
  <2>2. listing' \in Seq(File) /\ Len(listing') = Len(upstream)
    BY <1>2, <2>1, NormaliseFields
  <2>3. heard' \in [1..Len(listing') -> Seq(Tracks \X Nat)]
    BY <1>2, <2>2
  <2>4. \A i \in 1..Len(listing') : Len(heard'[i]) = 0 /\ upstream[i] \in File
    BY <1>2, <2>1, <2>2
  <2>5. HeardFits'
    BY <2>4 DEF HeardFits, File
  <2>6. UNCHANGED <<played, upstream, rescans, expiries, probes, faults, item, gone, token,
                    header, found, reply>>
    BY <1>2 DEF Browse, book, bounds
  <2>7. TypeOK'
    BY <1>2, <2>1, <2>2, <2>3, <2>6 DEF TypeInv, TypeOK
  <2>8. AtItem' /\ AsksOn'
    BY <1>2, <2>1, <2>2, <2>6 DEF AtItem, AsksOn, InItem
  <2> QED BY <2>5, <2>7, <2>8 DEF TypeInv
<1> QED BY <1>1, <1>2 DEF Browse

LEMMA TypeAsk == TypeInv /\ Ask => TypeInv'
<1> SUFFICES ASSUME TypeInv, Ask PROVE TypeInv'
  OBVIOUS
<1> USE PlaybackAssumption
<1>1. Position \in Word /\ item \in 1..Len(listing)
  BY PositionType DEF Ask, InItem
<1>2. UNCHANGED <<played, upstream, rescans, listing, item, heard, gone, token, reply,
                  expiries, probes, faults, Position>> /\ pc' = "verify"
  BY DEF Ask, book, bounds, Position
<1>3. header' \in AskedAt(Position)
  BY DEF Ask, AskedAt
<1>4. header' \in Headers
  <2>1. CASE header' = NoHeader
    BY <2>1 DEF NoHeader, Headers
  <2>2. ASSUME NEW last \in {Absent} \cup SpanEnds, header' = [first |-> Position, last |-> last]
        PROVE  header' \in Headers
    <3>1. last \in Int \cup {Absent}
      <4>1. SpanEnds \subseteq Int
        OBVIOUS
      <4> QED BY <2>2, <4>1
    <3> QED BY <1>1, <2>2, <3>1 DEF Headers
  <2>3. ASSUME NEW m \in Suffixes, header' = [first |-> Absent, last |-> m]
        PROVE  header' \in Headers
    <3>1. m \in Int
      OBVIOUS
    <3> QED BY <2>3, <3>1 DEF Headers
  <2> QED BY <1>3, <2>1, <2>2, <2>3 DEF AskedAt
<1>5. TypeOK'
  BY <1>2, <1>4 DEF TypeInv, TypeOK, Ask
<1>6. AtItem' /\ AsksOn' /\ HeardFits'
  BY <1>1, <1>2, <1>3 DEF TypeInv, AtItem, AsksOn, HeardFits, InItem, Position
<1> QED BY <1>5, <1>6 DEF TypeInv

LEMMA TypeProbe == TypeInv /\ Probe => TypeInv'
<1> SUFFICES ASSUME TypeInv, Probe PROVE TypeInv'
  OBVIOUS
<1> USE PlaybackAssumption
<1>1. item \in 1..Len(listing)
  BY PositionType DEF Probe, InItem
<1>2. UNCHANGED <<played, upstream, rescans, listing, item, heard, gone, token, reply,
                  expiries, faults, Position>> /\ pc' = "verify" /\ probes' \in Nat
  BY DEF Probe, book, Position, TypeInv, TypeOK
<1>3. header' \in AskedAt(Position) /\ found' = Absent
  BY DEF Probe, AskedAt
<1>4. header' \in Headers
  <2>1. PICK n \in Suffixes : header' = [first |-> Absent, last |-> n]
    BY DEF Probe
  <2>2. n \in Int
    OBVIOUS
  <2> QED BY <2>1, <2>2 DEF Headers
<1>5. TypeOK'
  BY <1>2, <1>3, <1>4 DEF TypeInv, TypeOK
<1>6. AtItem' /\ AsksOn' /\ HeardFits'
  BY <1>1, <1>2, <1>3 DEF TypeInv, AtItem, AsksOn, HeardFits, InItem, Position
<1> QED BY <1>5, <1>6 DEF TypeInv

LEMMA TypeVerify == TypeInv /\ Verify => TypeInv'
  BY DEF Verify, TypeInv, TypeOK, AtItem, AsksOn, HeardFits, Position, InItem, book, bounds

LEMMA TypePickFile == TypeInv /\ PickFile => TypeInv'
<1> SUFFICES ASSUME TypeInv, PickFile PROVE TypeInv'
  OBVIOUS
<1> USE PlaybackAssumption
<1> DEFINE files == Normalise(upstream)
           picked == FindFile(files, listing[item].index)
<1>1. /\ pc = "detail" /\ item \in 1..Len(listing) /\ listing[item] \in File
      /\ upstream \in Seq(File)
  BY PositionType DEF PickFile, InItem, TypeInv, TypeOK
<1>2. UNCHANGED <<played, upstream, rescans, listing, heard, token, header, reply>>
  BY DEF PickFile, book
<1>3. \A i \in picked : files[i].track \in Tracks
  <2>1. listing[item].index \in Nat
    BY <1>1 DEF File
  <2>2. \A i \in picked : i \in 1..Len(upstream)
    BY <1>1, <2>1, FindFileByIndex
  <2>3. files \in Seq(File) /\ Len(files) = Len(upstream)
    BY <1>1, NormaliseFields
  <2>4. \A i \in 1..Len(upstream) : files[i] \in File
    BY <2>3
  <2> QED BY <2>2, <2>4 DEF File
<1>4. CASE pc' = "open" /\ (\E i \in picked : found' = files[i].track) /\ UNCHANGED <<item, gone, bounds>>
  <2>1. found' \in Tracks
    BY <1>3, <1>4
  <2>2. TypeOK'
    BY <1>2, <1>4, <2>1 DEF TypeInv, TypeOK, bounds
  <2>3. AtItem' /\ AsksOn' /\ HeardFits'
    BY <1>1, <1>2, <1>4, <2>1 DEF TypeInv, AtItem, AsksOn, HeardFits, Position, InItem
  <2> QED BY <2>2, <2>3 DEF TypeInv
<1>5. CASE NextItem /\ gone' = gone \cup {item} /\ UNCHANGED <<found, bounds>>
  <2>1. Len(listing) \in Nat
    BY DEF TypeInv, TypeOK
  <2>2. TypeOK'
    BY <1>1, <1>2, <1>5 DEF TypeInv, TypeOK, NextItem, bounds
  <2>3. AtItem' /\ AsksOn' /\ HeardFits'
    BY <1>1, <1>2, <1>5, <2>1 DEF TypeInv, AtItem, AsksOn, HeardFits, InItem, NextItem
  <2> QED BY <2>2, <2>3 DEF TypeInv
<1>6. CASE Fault /\ pc' = "ask" /\ UNCHANGED <<item, gone, found>>
  BY <1>1, <1>2, <1>6 DEF Fault, TypeInv, TypeOK, AtItem, AsksOn, HeardFits, InItem
<1> QED BY <1>4, <1>5, <1>6 DEF PickFile

(* What OpenAndServe sends *)
Part == ServeContent(Clamped(header, SizeOf[found]), SizeOf[found])

LEMMA PartBounds ==
  ASSUME TypeInv, pc = "open"
  PROVE  /\ Part \in [from : Nat, count : Nat]
         /\ Part.from + Part.count <= SizeOf[found]
         /\ SizeOf[found] \in Nat /\ SizeOf[found] + Chunk <= MaxInt
         /\ AsksShort => Part.count <= Chunk
<1>1. header \in AskedAt(Position) /\ found \in Tracks /\ Position \in Nat
      /\ Position + Chunk <= MaxInt
  BY PositionType DEF TypeInv, AsksOn, InItem
<1>2. SizeOf[found] \in Nat /\ SizeOf[found] + Chunk <= MaxInt
  BY <1>1, PlaybackAssumption
<1> QED BY <1>1, <1>2, ServeBounds DEF Part

Received == [b \in 1..Part.count |-> <<found, Part.from + b - 1>>]

LEMMA ReceivedType ==
  ASSUME TypeInv, pc = "open"
  PROVE  Received \in Seq(Tracks \X Nat) /\ Len(Received) = Part.count
<1>1. Part.count \in Nat /\ Part.from \in Nat /\ found \in Tracks
  BY PartBounds DEF TypeInv, AsksOn
<1> QED BY <1>1 DEF Received

LEMMA TypeServe == TypeInv /\ OpenAndServe => TypeInv'
<1> SUFFICES ASSUME TypeInv, OpenAndServe PROVE TypeInv'
  OBVIOUS
<1> USE PlaybackAssumption
<1>0. pc = "open" /\ UNCHANGED <<book, listing, gone, token, header, found>>
  BY Zenon DEF OpenAndServe
<1>1. /\ pc = "open" /\ item \in 1..Len(listing) /\ heard[item] \in Seq(Tracks \X Nat)
      /\ Len(listing) \in Nat
  BY <1>0, PositionType DEF InItem, TypeInv, TypeOK
<1>2. UNCHANGED <<played, upstream, rescans, listing, gone, token, header, found>>
  BY <1>0 DEF book
<1> DEFINE Failing == Fault /\ pc' = "ask" /\ UNCHANGED <<reply, heard, item>>
           Serving ==
             /\ reply' = Part
             /\ heard' = IF Part.from = Position THEN [heard EXCEPT ![item] = @ \o Received] ELSE heard
             /\ IF Part.from = Position /\ Part.from + Part.count = SizeOf[found]
                THEN NextItem ELSE pc' = "ask" /\ UNCHANGED item
             /\ UNCHANGED bounds
<1>3. CASE Failing
  <2>1. TypeOK'
    BY <1>2, <1>3 DEF Fault, TypeInv, TypeOK
  <2>2. HeardFits'
    BY <1>2, <1>3 DEF TypeInv, HeardFits
  <2>3. AtItem' /\ AsksOn'
    BY <1>1, <1>2, <1>3 DEF TypeInv, AtItem, AsksOn, InItem
  <2> QED BY <2>1, <2>2, <2>3 DEF TypeInv
<1>4. CASE Serving
  <2>1. /\ reply' \in [from : Nat, count : Nat] /\ Part.count \in Nat /\ Part.from \in Nat
        /\ Received \in Seq(Tracks \X Nat) /\ Len(Received) = Part.count
    BY <1>1, <1>4, PartBounds, ReceivedType
  <2>2. heard[item] \o Received \in Seq(Tracks \X Nat)
    BY <1>1, <2>1
  <2>3. heard' \in [1..Len(listing) -> Seq(Tracks \X Nat)]
    BY <1>1, <1>4, <2>2 DEF TypeInv, TypeOK
  <2>4. pc' \in {"ask", "finished"} /\ item' \in Nat
        /\ (pc' = "ask" => item' \in 1..Len(listing))
    <3>1. CASE NextItem
      BY <1>1, <3>1 DEF NextItem
    <3>2. CASE pc' = "ask" /\ UNCHANGED item
      BY <1>1, <3>2
    <3> QED BY <1>4, <3>1, <3>2
  <2>5. TypeOK'
    BY <1>2, <1>4, <2>1, <2>3, <2>4 DEF TypeInv, TypeOK, bounds
  <2>6. HeardFits'
    <3> SUFFICES ASSUME NEW i \in 1..Len(listing)
                 PROVE  Len(heard'[i]) + Chunk <= MaxInt
      BY <1>2 DEF HeardFits
    <3>1. CASE heard'[i] = heard[i]
      BY <3>1 DEF TypeInv, HeardFits
    <3>2. CASE Part.from = Position /\ heard'[i] = heard[item] \o Received
      <4>1. Len(heard'[i]) = Part.from + Part.count
        <5>1. PICK s \in Seq(Tracks \X Nat), t \in Seq(Tracks \X Nat) :
                s = heard[item] /\ t = Received
          BY <1>1, <2>1
        <5>2. Len(s \o t) = Len(s) + Len(t)
          BY ConcatProperties
        <5> QED BY <2>1, <3>2, <5>1, <5>2 DEF Position
      <4>2. Part.from + Part.count + Chunk <= MaxInt
        BY <1>1, PartBounds
      <4> QED BY <4>1, <4>2
    <3> QED BY <1>1, <1>4, <3>1, <3>2 DEF TypeInv, TypeOK
  <2>7. AtItem' /\ AsksOn'
    BY <1>1, <1>2, <2>4 DEF AtItem, AsksOn, InItem
  <2> QED BY <2>5, <2>6, <2>7 DEF TypeInv
<1>5. Serving \/ Failing
  BY Zenon DEF OpenAndServe, Part, Received
<1> QED BY <1>3, <1>4, <1>5

LEMMA TypeNext == TypeInv /\ [Next]_vars => TypeInv'
<1> SUFFICES ASSUME TypeInv, [Next]_vars PROVE TypeInv'
  OBVIOUS
<1>1. CASE Rescan
  BY <1>1 DEF Rescan, TypeInv, TypeOK, AtItem, AsksOn, HeardFits, Position, InItem, bounds
<1>2. CASE Expire
  BY <1>2 DEF Expire, TypeInv, TypeOK, AtItem, AsksOn, HeardFits, Position, InItem, book
<1>3. CASE UNCHANGED vars
  BY <1>3 DEF vars, TypeInv, TypeOK, AtItem, AsksOn, HeardFits, Position, InItem, book, bounds
<1> QED BY <1>1, <1>2, <1>3, TypeBrowse, TypeAsk, TypeProbe, TypeVerify, TypePickFile, TypeServe
    DEF Next, Play

(* Every variable keeps its type: in particular int64 arithmetic never makes a  *)
(* response of negative length or one that begins before its file does.         *)
THEOREM TypeCorrect == Spec => []TypeOK
<1>1. TypeInv => TypeOK
  BY DEF TypeInv
<1> QED BY <1>1, TypeInit, TypeNext, PTL DEF Spec

(* No response is longer than a chunk for a player that asks for one range at a *)
(* time and, by it, neither for the largest int64 as the last byte nor for more *)
(* last bytes than a chunk has (stream/handler.go:150-188).                     *)
THEOREM ChunksAreBounded ==
  ASSUME MaxInt \notin SpanEnds, \A m \in Suffixes : m <= Chunk
  PROVE  Spec => []ChunkBounded
<1>1. Init => ChunkBounded
  BY PlaybackAssumption DEF Init, ChunkBounded, NoReply
<1>2. TypeInv /\ ChunkBounded /\ [Next]_vars => ChunkBounded'
  <2> SUFFICES ASSUME TypeInv, ChunkBounded, [Next]_vars PROVE ChunkBounded'
    OBVIOUS
  <2>1. CASE OpenAndServe
    <3>1. pc = "open" /\ (reply' = Part \/ reply' = reply)
      BY <2>1 DEF OpenAndServe, Part
    <3> QED BY <3>1, PartBounds DEF ChunkBounded, AsksShort
  <2>2. CASE ~OpenAndServe
    BY <2>2 DEF Next, Play, vars, Rescan, Expire, Browse, Ask, Probe, Verify, PickFile,
                   ChunkBounded
  <2> QED BY <2>1, <2>2
<1> QED BY <1>1, <1>2, TypeInit, TypeNext, PTL DEF Spec

----
(* What the player hears                                                        *)

(* The player's list is one BookWarehouse gave, the one it has if it never      *)
(* rescanned; *)
ListedOnce ==
  pc # "browse" => \E l \in ListsOf[played] : /\ listing = Normalise(l)
                                              /\ rescans = 0 => l = upstream

(* the handler has picked the track that is listed; *)
FoundAsListed == pc = "open" => found = listing[item].track

(* the files before the player's are through with, and the rest not begun.      *)
HeardInOrder ==
  \A i \in 1..Len(listing) :
    (pc = "finished" \/ (pc \in InItem /\ i < item)) =>
      \/ Len(heard[i]) = SizeOf[listing[i].track]
      \/ i \in gone /\ rescans > 0

HearInv == ListedOnce /\ FoundAsListed /\ HeardAsListed /\ HeardInOrder

LEMMA HearInit == Init => HearInv
<1> SUFFICES ASSUME Init PROVE HearInv
  OBVIOUS
<1>1. pc = "browse" /\ Len(listing) = 0
  BY DEF Init
<1> QED BY <1>1 DEF HearInv, ListedOnce, FoundAsListed, HeardAsListed, HeardInOrder, InItem

LEMMA ListsAreSeqs ==
  ASSUME TypeInv, NEW l \in ListsOf[played]
  PROVE  l \in Seq(File)
<1>1. played \in Books
  BY DEF TypeInv, TypeOK
<1> QED BY <1>1, PlaybackAssumption

LEMMA HearBrowse == TypeInv /\ HearInv /\ Browse => HearInv'
<1> SUFFICES ASSUME TypeInv, HearInv, Browse PROVE HearInv'
  OBVIOUS
<1>1. CASE UNCHANGED <<listing, heard, pc>>
  BY <1>1 DEF Browse, HearInv, ListedOnce, FoundAsListed, HeardAsListed, HeardInOrder, InItem, book
<1>2. CASE /\ listing' = Normalise(upstream)
           /\ heard' = [i \in 1..Len(upstream) |-> <<>>]
           /\ pc' = IF upstream = <<>> THEN "finished" ELSE "ask"
  <2>1. upstream \in ListsOf[played] /\ item' = 1 /\ UNCHANGED <<played, upstream, rescans, gone>>
    BY DEF Browse, TypeInv, TypeOK, AtItem, book
  <2>2. upstream \in Seq(File) /\ Len(listing') = Len(upstream) /\ Len(upstream) \in Nat
    BY <1>2, <2>1, ListsAreSeqs, NormaliseFields
  <2>3. ListedOnce' /\ FoundAsListed'
    BY <1>2, <2>1 DEF ListedOnce, FoundAsListed
  <2>4. HeardAsListed'
    BY <1>2, <2>2 DEF HeardAsListed, Bytes
  <2>5. HeardInOrder'
    BY <1>2, <2>1, <2>2 DEF HeardInOrder, InItem
  <2> QED BY <2>3, <2>4, <2>5 DEF HearInv
<1> QED BY <1>1, <1>2 DEF Browse

(* A step that leaves the list and what was heard alone, and does not move on.  *)
LEMMA HearQuiet ==
  ASSUME TypeInv, HearInv, UNCHANGED <<played, upstream, rescans, listing, item, heard, gone>>,
         pc \in InItem, pc' \in InItem, pc' = "open" => found' = listing[item].track
  PROVE  HearInv'
<1>1. ListedOnce'
  BY DEF HearInv, ListedOnce, InItem
<1>2. FoundAsListed' /\ HeardAsListed' /\ HeardInOrder'
  BY DEF HearInv, FoundAsListed, HeardAsListed, HeardInOrder, InItem
<1> QED BY <1>1, <1>2 DEF HearInv

(* The player moves on to the next file, or to the end. *)
LEMMA HearNextItem ==
  ASSUME TypeInv, HearInv, UNCHANGED <<played, upstream, rescans, listing>>,
         pc \in InItem, NextItem, HeardAsListed', gone \subseteq gone',
         \A i \in 1..Len(listing) : i # item => heard'[i] = heard[i],
         Len(heard'[item]) = SizeOf[listing[item].track] \/ (item \in gone' /\ rescans > 0)
  PROVE  HearInv'
<1>1. item \in 1..Len(listing) /\ Len(listing) \in Nat
  BY DEF TypeInv, TypeOK, AtItem
<1>2. ListedOnce' /\ FoundAsListed'
  BY DEF HearInv, ListedOnce, FoundAsListed, NextItem, InItem
<1>3. HeardInOrder'
  <2> SUFFICES ASSUME NEW i \in 1..Len(listing),
                      pc' = "finished" \/ (pc' \in InItem /\ i < item')
               PROVE  \/ Len(heard'[i]) = SizeOf[listing[i].track]
                      \/ i \in gone' /\ rescans > 0
    BY DEF HeardInOrder
  <2>1. i <= item
    BY <1>1 DEF NextItem, InItem
  <2>2. CASE i = item
    BY <2>2
  <2>3. CASE i < item
    BY <1>1, <2>3 DEF HearInv, HeardInOrder
  <2> QED BY <1>1, <2>1, <2>2, <2>3
<1> QED BY <1>2, <1>3 DEF HearInv

LEMMA HearPickFile ==
  ASSUME IndexNamesTrack, TypeInv, HearInv, PickFile
  PROVE  HearInv'
<1> DEFINE files == Normalise(upstream)
           picked == FindFile(files, listing[item].index)
<1>1. /\ pc = "detail" /\ pc \in InItem /\ item \in 1..Len(listing)
      /\ played \in Books /\ upstream \in ListsOf[played]
  BY PositionType DEF PickFile, InItem, TypeInv, TypeOK
<1>2. UNCHANGED <<played, upstream, rescans, listing, heard>>
  BY DEF PickFile, book
<1>3. PICK l \in ListsOf[played] : listing = Normalise(l) /\ (rescans = 0 => l = upstream)
  BY <1>1 DEF HearInv, ListedOnce
<1>4. /\ l \in Seq(File) /\ upstream \in Seq(File) /\ Len(listing) = Len(l)
      /\ \A i \in 1..Len(l) : Normalise(l)[i].track = l[i].track
      /\ \A i \in 1..Len(upstream) : files[i].track = upstream[i].track
  BY <1>1, <1>3, ListsAreSeqs, NormaliseFields
<1>5. listing[item].index \in Nat
  BY <1>1, PositionType DEF File
<1>6. \A i \in picked : files[i].track = listing[item].track
  <2> SUFFICES ASSUME NEW i \in picked PROVE files[i].track = listing[item].track
    OBVIOUS
  <2>1. i \in 1..Len(upstream) /\ files[i].index = listing[item].index
    BY <1>4, <1>5, FindFileByIndex
  <2>2. upstream[i].track = l[item].track
    BY <1>1, <1>3, <1>4, <2>1 DEF IndexNamesTrack
  <2> QED BY <1>1, <1>3, <1>4, <2>1, <2>2
<1>7. picked = {} => rescans > 0
  <2>1. ASSUME rescans = 0 PROVE picked # {}
    <3>1. item \in 1..Len(upstream) /\ files[item].index = listing[item].index
      BY <1>1, <1>3, <1>4, <2>1
    <3> QED BY <1>4, <1>5, <3>1, FindFileByIndex
  <2> QED BY <2>1 DEF TypeInv, TypeOK
<1>8. CASE pc' = "open" /\ (\E i \in picked : found' = files[i].track) /\ UNCHANGED <<item, gone>>
  BY <1>1, <1>2, <1>6, <1>8, HearQuiet DEF InItem
<1>9. CASE picked = {} /\ NextItem /\ gone' = gone \cup {item}
  <2>1. HeardAsListed'
    BY <1>2 DEF HearInv, HeardAsListed
  <2> QED BY <1>1, <1>2, <1>7, <1>9, <2>1, HearNextItem
<1>10. CASE pc' = "ask" /\ UNCHANGED <<item, gone>>
  BY <1>1, <1>2, <1>10, HearQuiet DEF InItem
<1> QED BY <1>8, <1>9, <1>10 DEF PickFile

(* What continues the beginning of a file is a longer beginning of it. *)
LEMMA BytesGoOn ==
  ASSUME NEW t, NEW n \in Nat, NEW m \in Nat
  PROVE  Bytes(t, n) \o [b \in 1..m |-> <<t, n + b - 1>>] = Bytes(t, n + m)
<1> DEFINE u == Bytes(t, n)
           v == [b \in 1..m |-> <<t, n + b - 1>>]
<1>1. /\ u = [b \in 1..n |-> <<t, b - 1>>] /\ Len(u) = n
      /\ Len(v) = m
  BY DEF Bytes
<1>2. /\ u \o v \in Seq({t} \X Int) /\ Len(u \o v) = n + m
      /\ \A b \in 1..(n + m) : (u \o v)[b] = IF b <= n THEN u[b] ELSE v[b - n]
  <2>1. u \in Seq({t} \X Int) /\ v \in Seq({t} \X Int)
    BY <1>1
  <2>2. PICK S : u \in Seq(S) /\ v \in Seq(S) /\ S = {t} \X Int
    BY <2>1
  <2> HIDE DEF u, v
  <2>3. /\ u \o v \in Seq(S) /\ Len(u \o v) = Len(u) + Len(v)
        /\ \A b \in 1..(Len(u) + Len(v)) :
             (u \o v)[b] = IF b <= Len(u) THEN u[b] ELSE v[b - Len(u)]
    BY <2>2, ConcatProperties
  <2>4. Len(u) = n /\ Len(v) = m
    BY <1>1
  <2> QED BY <2>2, <2>3, <2>4
<1>3. \A b \in 1..(n + m) : (IF b <= n THEN u[b] ELSE v[b - n]) = <<t, b - 1>>
  <2> SUFFICES ASSUME NEW b \in 1..(n + m)
               PROVE  (IF b <= n THEN u[b] ELSE v[b - n]) = <<t, b - 1>>
    OBVIOUS
  <2>1. CASE b <= n
    BY <1>1, <2>1
  <2>2. CASE ~(b <= n)
    <3>1. b - n \in 1..m /\ n + (b - n) - 1 = b - 1
      BY <2>2
    <3>2. v[b - n] = <<t, n + (b - n) - 1>>
      BY <3>1
    <3> QED BY <2>2, <3>1, <3>2
  <2> QED BY <2>1, <2>2
<1> HIDE DEF u, v
<1>4. u \o v = [b \in 1..(n + m) |-> <<t, b - 1>>]
  BY <1>2, <1>3, LenProperties
<1> QED BY <1>4 DEF u, v, Bytes

LEMMA HearServe ==
  ASSUME TypeInv, HearInv, OpenAndServe
  PROVE  HearInv'
<1>1. /\ pc = "open" /\ pc \in InItem /\ item \in 1..Len(listing) /\ Position \in Nat
      /\ found = listing[item].track
      /\ heard \in [1..Len(listing) -> Seq(Tracks \X Nat)]
  BY PositionType DEF OpenAndServe, InItem, TypeInv, TypeOK, HearInv, FoundAsListed
<1>2. UNCHANGED <<played, upstream, rescans, listing, gone>>
  BY DEF OpenAndServe, book
<1>3. Part.from \in Nat /\ Part.count \in Nat /\ SizeOf[found] \in Nat
  BY <1>1, PartBounds
<1>4. CASE heard' = heard /\ pc' = "ask" /\ UNCHANGED item
  BY <1>1, <1>2, <1>4, HearQuiet DEF InItem
<1>5. CASE Part.from = Position /\ heard' = [heard EXCEPT ![item] = @ \o Received]
  <2>1. /\ heard'[item] = heard[item] \o Received
        /\ \A i \in 1..Len(listing) : i # item => heard'[i] = heard[i]
    BY <1>1, <1>5
  <2>2. heard'[item] = Bytes(found, Position + Part.count)
    <3>1. heard[item] = Bytes(found, Position)
      BY <1>1 DEF HearInv, HeardAsListed, Position
    <3>2. Received = [b \in 1..Part.count |-> <<found, Position + b - 1>>]
      BY <1>5 DEF Received
    <3>3. PICK n \in Nat, m \in Nat : n = Position /\ m = Part.count
      BY <1>1, <1>3
    <3>4. Received = [b \in 1..m |-> <<found, n + b - 1>>]
      BY <3>2, <3>3
    <3>5. heard'[item] = Bytes(found, n) \o [b \in 1..m |-> <<found, n + b - 1>>]
      BY <2>1, <3>1, <3>3, <3>4
    <3> QED BY <3>3, <3>5, BytesGoOn
  <2>3. Len(heard'[item]) = Position + Part.count
    BY <1>1, <1>3, <2>2 DEF Bytes
  <2>4. HeardAsListed'
    BY <1>1, <1>2, <2>1, <2>2, <2>3 DEF HearInv, HeardAsListed
  <2>5. CASE Part.from + Part.count = SizeOf[found] /\ NextItem
    BY <1>1, <1>2, <1>5, <2>1, <2>3, <2>4, <2>5, HearNextItem
  <2>6. CASE pc' = "ask" /\ UNCHANGED item
    <3>1. ListedOnce' /\ FoundAsListed'
      BY <1>1, <1>2, <2>6 DEF HearInv, ListedOnce, FoundAsListed
    <3>2. HeardInOrder'
      <4>1. \A i \in 1..Len(listing) : i < item => i # item
        BY <1>1
      <4> QED BY <1>1, <1>2, <2>1, <2>6, <4>1 DEF HearInv, HeardInOrder, InItem
    <3> QED BY <2>4, <3>1, <3>2 DEF HearInv
  <2> QED BY <1>5, <2>5, <2>6 DEF OpenAndServe, Part, Fault
<1> QED BY <1>4, <1>5 DEF OpenAndServe, Part, Received

LEMMA HearRescan == TypeInv /\ HearInv /\ Rescan => HearInv'
<1> SUFFICES ASSUME TypeInv, HearInv, Rescan PROVE HearInv'
  OBVIOUS
<1>1. rescans' > 0 /\ rescans \in Nat
  BY DEF Rescan, TypeInv, TypeOK
<1>2. UNCHANGED <<played, listing, item, heard, gone, pc, found>>
  BY DEF Rescan
<1> QED BY <1>1, <1>2 DEF HearInv, ListedOnce, FoundAsListed, HeardAsListed, HeardInOrder, InItem

LEMMA HearNext ==
  ASSUME IndexNamesTrack
  PROVE  TypeInv /\ HearInv /\ [Next]_vars => HearInv'
<1> SUFFICES ASSUME TypeInv, HearInv, [Next]_vars PROVE HearInv'
  OBVIOUS
<1>1. CASE Expire \/ UNCHANGED vars
  <2>1. UNCHANGED <<played, upstream, rescans, listing, item, heard, gone, pc, found>>
    BY <1>1 DEF Expire, vars, book
  <2> QED BY <2>1 DEF HearInv, ListedOnce, FoundAsListed, HeardAsListed, HeardInOrder, InItem
<1>2. CASE Ask \/ Probe \/ Verify
  <2>1. /\ UNCHANGED <<played, upstream, rescans, listing, item, heard, gone>>
        /\ pc \in InItem /\ pc' \in {"ask", "verify", "detail"}
    BY <1>2 DEF Ask, Probe, Verify, InItem, book
  <2> QED BY <2>1, HearQuiet DEF InItem
<1> QED BY <1>1, <1>2, HearBrowse, HearPickFile, HearServe, HearRescan DEF Next, Play

(* What the player has of a file is the beginning of that file, over responses  *)
(* cut to a chunk, repeats, 401s, 502s and rescans, for any list in which an    *)
(* index keeps its meaning.                                                     *)
THEOREM HearsWhatIsListed ==
  ASSUME IndexNamesTrack
  PROVE  Spec => []HeardAsListed
<1>1. TypeInv /\ HearInv /\ [Next]_vars => HearInv'
  BY HearNext
<1>2. HearInv => HeardAsListed
  BY DEF HearInv
<1> QED BY <1>1, <1>2, TypeInit, TypeNext, HearInit, PTL DEF Spec

(* And at the end of the book it has all of every file but those that a rescan  *)
(* took away: no file is left out because its index was 0 or not given.         *)
THEOREM FinishedHasHeardAll ==
  ASSUME IndexNamesTrack
  PROVE  Spec => []FinishedIsHeard
<1>1. TypeInv /\ HearInv /\ [Next]_vars => HearInv'
  BY HearNext
<1>2. HearInv => FinishedIsHeard
  BY DEF HearInv, HeardInOrder, FinishedIsHeard
<1> QED BY <1>1, <1>2, TypeInit, TypeNext, HearInit, PTL DEF Spec
====

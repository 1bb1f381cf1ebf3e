---- MODULE Playback ----
(* How one audiobook is played through the plugin: the detail response whose    *)
(* file indices the player uses (internal/bookwarehouse, internal/catalog), and *)
(* the stream handler that answers one Range request at a time out of a local   *)
(* file (internal/stream). BookWarehouse may rescan the book meanwhile, media   *)
(* tokens expire, calls fail. The player, BookWarehouse and http.ServeContent   *)
(* are external; positions in a file are counted in bytes.                      *)
EXTENDS BookFiles

CONSTANTS
  Tracks,        \* the audio files the book has at one time or another
  SizeOf,        \* the number of bytes in each
  Chunk,         \* streamChunkBytes
  MaxInt,        \* the largest int64
  Absent,        \* a part of a Range header that is not there
  Books,         \* one of which is played
  ListsOf,       \* the file lists upstream may give for each, over time
  SpanEnds,      \* last bytes a player names in a Range of its own choice
  Suffixes,      \* numbers of last bytes that it asks for, whatever the size
  MaxRescans,    \* bound: times the upstream list changes
  MaxExpiries,   \* bound: tokens that expire
  MaxProbes,     \* bound: times the player looks at the end of a file
  MaxFaults      \* bound: upstream calls and file accesses that fail

File == [track : Tracks, index : Nat]

ASSUME PlaybackAssumption ==
  /\ SizeOf \in [Tracks -> Nat]
  /\ Chunk \in Nat \ {0}
  /\ MaxInt \in Nat
  /\ \A t \in Tracks : SizeOf[t] + Chunk <= MaxInt
  /\ Absent \notin Int \cup Tracks
  /\ SpanEnds \subseteq 0..MaxInt /\ Suffixes \subseteq 1..MaxInt
  /\ ListsOf \in [Books -> SUBSET Seq(File)]
  /\ MaxRescans \in Nat /\ MaxExpiries \in Nat /\ MaxProbes \in Nat /\ MaxFaults \in Nat

(* What BookWarehouse has to see to: an index, given by it or counted by the    *)
(* client, stands for the same track in every list of a book.                   *)
IndexNamesTrack ==
  \A b \in Books : \A l, m \in ListsOf[b] : \A i \in 1..Len(l), j \in 1..Len(m) :
    Normalise(l)[i].index = Normalise(m)[j].index => l[i].track = m[j].track

VARIABLES
  played,     \* the book
  upstream,   \* its file list at BookWarehouse now
  listing,    \* the files GET /catalog/{id} told the player of
  item,       \* the listed file the player is at
  heard,      \* of each listed file, the bytes received: <<track, offset>> each
  gone,       \* listed files answered "file index not found"
  token,      \* "fresh" or "expired"
  pc,         \* where the player, or the handler for it, is
  header,     \* Range of the request in flight
  found,      \* the track the handler has picked for it
  reply,      \* the last response with bytes: where they start, how many
  rescans, expiries, probes, faults

book == <<played, upstream, rescans>>
bounds == <<expiries, probes, faults>>
vars == <<book, listing, item, heard, gone, token, pc, header, found, reply, bounds>>

Word == 0..MaxInt
Headers == [first : Word \cup {Absent}, last : Int \cup {Absent}]
NoHeader == [first |-> Absent, last |-> Absent]
NoReply == [from |-> 0, count |-> 0]

TypeOK ==
  /\ played \in Books
  /\ upstream \in ListsOf[played]
  /\ listing \in Seq(File)
  /\ item \in Nat
  /\ heard \in [1..Len(listing) -> Seq(Tracks \X Nat)]
  /\ gone \subseteq 1..Len(listing)
  /\ token \in {"fresh", "expired"}
  /\ pc \in {"browse", "ask", "verify", "detail", "open", "finished"}
  /\ header \in Headers
  /\ found \in Tracks \cup {Absent}
  /\ reply \in [from : Nat, count : Nat]
  /\ rescans \in Nat /\ expiries \in Nat /\ probes \in Nat /\ faults \in Nat

Init ==
  /\ played \in Books
  /\ upstream \in ListsOf[played]
  /\ listing = <<>>
  /\ item = 1
  /\ heard = <<>>
  /\ gone = {}
  /\ token = "fresh"
  /\ pc = "browse"
  /\ header = NoHeader
  /\ found = Absent
  /\ reply = NoReply
  /\ rescans = 0 /\ expiries = 0 /\ probes = 0 /\ faults = 0

----
(* One response                                                                 *)

Wrap(n) == ((n + MaxInt + 1) % (2 * (MaxInt + 1))) - (MaxInt + 1)

OneChunk(first) == [first |-> first, last |-> Wrap(first + Chunk - 1)]

(* Mutant: the test for one chunk forgets that a range includes both its ends. *)
ClampedLonger(h, size) ==
  LET last == IF h.last = Absent THEN size - 1 ELSE h.last IN
  CASE h = NoHeader -> IF size > Chunk THEN OneChunk(0) ELSE h
    [] h # NoHeader /\ h.first = Absent -> h
    [] h.first # Absent -> IF Wrap(last - h.first) > Chunk THEN OneChunk(h.first) ELSE h

(* Mutant: every range that is cut starts at the beginning of the file. *)
ClampedToStart(h, size) ==
  LET last == IF h.last = Absent THEN size - 1 ELSE h.last IN
  CASE h = NoHeader -> IF size > Chunk THEN OneChunk(0) ELSE h
    [] h # NoHeader /\ h.first = Absent -> h
    [] h.first # Absent -> IF Wrap(Wrap(last - h.first) + 1) > Chunk THEN OneChunk(0) ELSE h

(* clampRangeHeader: no Range, an open-ended one and one that is too long become *)
(* a single chunk, in int64 arithmetic; a suffix is left alone.                 *)
Clamped(h, size) ==
  LET last == IF h.last = Absent THEN size - 1 ELSE h.last IN
  CASE h = NoHeader -> IF size > Chunk THEN OneChunk(0) ELSE h
    [] h # NoHeader /\ h.first = Absent -> h
    [] h.first # Absent ->
         IF Wrap(Wrap(last - h.first) + 1) > Chunk THEN OneChunk(h.first) ELSE h

Least(m, n) == IF m <= n THEN m ELSE n

(* http.ServeContent: the part of the file the header selects, the whole file   *)
(* without one or when it is empty; nothing when the range is not satisfiable.  *)
ServeContent(h, size) ==
  CASE h = NoHeader \/ size = 0 -> [from |-> 0, count |-> size]
    [] h # NoHeader /\ size > 0 /\ h.first = Absent ->
         [from |-> size - Least(h.last, size), count |-> Least(h.last, size)]
    [] size > 0 /\ h.first # Absent ->
         LET last == IF h.last = Absent THEN size - 1 ELSE Least(h.last, size - 1) IN
         IF h.first > last THEN NoReply
         ELSE [from |-> h.first, count |-> last - h.first + 1]

----
(* The player and the world                                                     *)

Fault ==
  /\ faults < MaxFaults
  /\ faults' = faults + 1
  /\ UNCHANGED <<expiries, probes>>

(* BookWarehouse rescans its library. *)
Rescan ==
  /\ rescans < MaxRescans
  /\ rescans' = rescans + 1
  /\ upstream' \in ListsOf[played] \ {upstream}
  /\ UNCHANGED <<played, listing, item, heard, gone, token, pc, header, found, reply, bounds>>

Expire ==
  /\ expiries < MaxExpiries
  /\ token = "fresh"
  /\ token' = "expired"
  /\ expiries' = expiries + 1
  /\ UNCHANGED <<book, listing, item, heard, gone, pc, header, found, reply, probes, faults>>

(* catalog's Detail: the player learns of the files as ToDetail shows them.     *)
Browse ==
  /\ pc = "browse"
  /\ \/ /\ listing' = Normalise(upstream)
        /\ heard' = [i \in 1..Len(upstream) |-> <<>>]
        /\ pc' = IF upstream = <<>> THEN "finished" ELSE "ask"
        /\ UNCHANGED bounds
     \/ Fault /\ UNCHANGED <<listing, heard, pc>>
  /\ UNCHANGED <<book, item, gone, token, header, found, reply>>

Position == Len(heard[item])

(* The first request may have no Range; each later one asks from where the last *)
(* response ended, to the end of the file or to a byte of the player's choice.  *)
Ask ==
  /\ pc = "ask"
  /\ pc' = "verify"
  /\ header' \in {[first |-> Position, last |-> last] : last \in {Absent} \cup
                      {e \in SpanEnds : e >= Position}}
                 \cup {h \in {NoHeader} : Position = 0}
  /\ found' = Absent
  /\ UNCHANGED <<book, listing, item, heard, gone, token, reply, bounds>>

(* Or it asks for the last bytes of the file, where some formats have an index. *)
Probe ==
  /\ pc = "ask" /\ probes < MaxProbes
  /\ pc' = "verify"
  /\ probes' = probes + 1
  /\ header' \in {[first |-> Absent, last |-> n] : n \in Suffixes}
  /\ found' = Absent
  /\ UNCHANGED <<book, listing, item, heard, gone, token, reply, expiries, faults>>

(* The player goes on to the next listed file when this one is over. *)
NextItem ==
  /\ item' = item + 1
  /\ pc' = IF item = Len(listing) THEN "finished" ELSE "ask"

----
(* The stream handler                                                           *)

(* tokens.Verify comes before anything else; on 401 the player gets a new token *)
(* from the portal and asks again.                                              *)
Verify ==
  /\ pc = "verify"
  /\ \/ token = "fresh" /\ pc' = "detail" /\ UNCHANGED token
     \/ token = "expired" /\ pc' = "ask" /\ token' = "fresh"
  /\ UNCHANGED <<book, listing, item, heard, gone, header, found, reply, bounds>>

(* GetBook asks upstream again, with every request; the indices of that answer  *)
(* decide. The player tries again after a 502 and goes on after a 404.          *)
PickFile ==
  LET files == Normalise(upstream)
      picked == FindFile(files, listing[item].index) IN
  /\ pc = "detail"
  /\ \/ /\ picked # {}
        /\ pc' = "open"
        /\ \E i \in picked : found' = files[i].track
        /\ UNCHANGED <<item, gone, bounds>>
     \/ /\ picked = {}
        /\ NextItem
        /\ gone' = gone \cup {item}
        /\ UNCHANGED <<found, bounds>>
     \/ Fault /\ pc' = "ask" /\ UNCHANGED <<item, gone, found>>
  /\ UNCHANGED <<book, listing, heard, token, header, reply>>

(* Resolve, open, stat, clamp and serve; the player appends what continues what *)
(* it has and stops at the end of the file, whose size every response names.    *)
OpenAndServe ==
  LET size == SizeOf[found]
      part == ServeContent(Clamped(header, size), size)
      continues == part.from = Position
      received == [b \in 1..part.count |-> <<found, part.from + b - 1>>] IN
  /\ pc = "open"
  /\ \/ /\ reply' = part
        /\ heard' = IF continues THEN [heard EXCEPT ![item] = @ \o received] ELSE heard
        /\ IF continues /\ part.from + part.count = size
           THEN NextItem ELSE pc' = "ask" /\ UNCHANGED item
        /\ UNCHANGED bounds
     \/ Fault /\ pc' = "ask" /\ UNCHANGED <<reply, heard, item>>
  /\ UNCHANGED <<book, listing, gone, token, header, found>>

----
Play == Browse \/ Ask \/ Probe \/ Verify \/ PickFile \/ OpenAndServe

Next == Rescan \/ Expire \/ Play

Spec == Init /\ [][Next]_vars

(* The player goes on asking and every request is answered. *)
FairSpec == Spec /\ WF_vars(Play)

----
(* Properties                                                                   *)

Bytes(track, n) == [b \in 1..n |-> <<track, b - 1>>]

(* Whatever the player heard of a listed file is the beginning of that very     *)
(* file, gapless and in order, though each response was looked up anew in a     *)
(* list that may have changed: a file that left the list is reported as not     *)
(* found, "otherwise a request for a non-existent index would silently serve a  *)
(* different track from this same book" (stream/handler.go:206-210).            *)
HeardAsListed ==
  \A i \in 1..Len(listing) : heard[i] = Bytes(listing[i].track, Len(heard[i]))

(* A player that is through with the book has heard all of every listed file,   *)
(* but for those a rescan took away (stream/handler.go:98-146). *)
FinishedIsHeard ==
  pc = "finished" =>
    \A i \in 1..Len(listing) :
      \/ Len(heard[i]) = SizeOf[listing[i].track]
      \/ i \in gone /\ rescans > 0

(* "streamChunkBytes is the maximum bytes we emit in a single response"         *)
(* (stream/handler.go:150-151): so it is, unless the player asks for more last  *)
(* bytes than that, or names the largest int64 as the last byte it wants.       *)
ChunkBounded == reply.count <= Chunk

(* The player gets through the book: every response that is cut short lets the  *)
(* next one go on, and expired tokens and failures only delay it.               *)
BookIsPlayed == <>(pc = "finished")
====

----------------------------- MODULE FileUpload -----------------------------
(***************************************************************************)
(* A file kept in memory (MemoryFile behind the file functions of          *)
(* InternalDevice) while a client uploads it over lines that lose requests *)
(* and answers, and the device may restart.                                *)
(*                                                                         *)
(* The client is not part of the repository: it sends one request at a     *)
(* time, repeats it when no answer came, and begins again when one is      *)
(* refused.  A chunk is given by its place; its bytes are those of the     *)
(* content, so the content is 1, 2, 3 and so on.                           *)
(***************************************************************************)
EXTENDS Integers, Sequences, SequencesExt

CONSTANTS
  capacity,       \* of the file
  Lengths,        \* of contents that are uploaded
  ChunkLengths,   \* of the chunks the client cuts
  kFileReservedPosition,  \* stands for the total of an empty file
  MaxInFlight,    \* bound: requests and answers under way
  MaxSends,       \* bound: requests of the client
  MaxReboots      \* bound: restarts of the device

ASSUME UploadAssumption ==
  /\ {capacity, MaxInFlight, MaxSends, MaxReboots} \subseteq Nat /\ Lengths \subseteq Nat
  /\ ChunkLengths \subseteq Nat \ {0} /\ kFileReservedPosition \in Nat
  /\ \A n \in Lengths : n < kFileReservedPosition

VARIABLES
  readonly, total,   \* the file's declaration, the length of the content
  data, finalized,   \* the file: what it holds, whether it is complete
  requests, replies, \* under way
  goal, place,       \* what the client is about to do, how far it got
  sends, reboots     \* bounds

uploadVars == <<readonly, total, data, finalized, requests, replies, goal, place, sends, reboots>>

Source == [i \in 1..total |-> i]
size == Len(data)

-----------------------------------------------------------------------------
(* The file. *)

\* Slip: the chunk is put at the end wherever it belongs.
StoredAnyway(offset, n) == [i \in 1..n |-> offset + i]

\* A chunk that starts beyond the end is accepted and nothing of it stored: the
\* part to skip is the unsigned distance to the end.  What is there is not stored
\* again.  The chunk holds the places offset + 1 .. offset + n of the content.
Stored(offset, n) ==
  IF offset <= size /\ size - offset < n THEN [i \in 1..(offset + n - size) |-> size + i]
  ELSE <<>>

writeChunk(offset, n) ==
  LET fits == ~readonly /\ n > 0 /\ offset + n <= capacity
  IN [done |-> fits, data |-> IF fits THEN data \o Stored(offset, n) ELSE data,
      finalized |-> finalized]

restartWrite ==
  [done |-> ~readonly, data |-> IF readonly THEN data ELSE <<>>,
   finalized |-> finalized /\ readonly]

finalizeWrite(aTotal) ==
  LET equal == ~readonly /\ (IF aTotal = kFileReservedPosition THEN 0 ELSE aTotal) = size
  IN [done |-> equal, data |-> data, finalized |-> finalized \/ equal]

\* readChunk; what InternalDevice answers is as long as what was asked for, with
\* anything in the place of what the file does not have.
readChunk(offset, n) ==
  IF offset >= size THEN <<>>
  ELSE SubSeq(data, offset + 1, IF offset + n < size THEN offset + n ELSE size)

\* fileWrite of InternalDevice: without data it starts or ends an upload.
fileWrite(q) ==
  CASE q.n = 0 /\ q.offset = 0 -> restartWrite
    [] q.n = 0 /\ q.offset # 0 -> finalizeWrite(q.offset)
    [] q.n # 0 -> writeChunk(q.offset, q.n)

DeviceWrites ==
  /\ requests # <<>> /\ requests' = Tail(requests)
  /\ ~Head(requests).read
  /\ LET r == fileWrite(Head(requests))
     IN /\ data' = r.data /\ finalized' = r.finalized
        /\ replies' = Append(replies, [to |-> Head(requests), done |-> r.done, data |-> <<>>])
  /\ UNCHANGED <<readonly, total, goal, place, sends, reboots>>

\* fileRead of InternalDevice.
DeviceReads ==
  /\ requests # <<>> /\ requests' = Tail(requests)
  /\ Head(requests).read
  /\ LET got == readChunk(Head(requests).offset, Head(requests).n)
     IN replies' = Append(replies, [to |-> Head(requests), done |-> got # <<>>, data |-> got])
  /\ UNCHANGED <<readonly, total, data, finalized, goal, place, sends, reboots>>

\* The constructor: an empty file, complete.
DeviceRestarts ==
  /\ reboots < MaxReboots /\ reboots' = reboots + 1
  /\ data' = <<>> /\ finalized' = TRUE /\ requests' = <<>>
  /\ UNCHANGED <<readonly, total, replies, goal, place, sends>>

-----------------------------------------------------------------------------
(* The client and the lines. *)

Question ==
  CASE goal = "start" -> {[read |-> FALSE, offset |-> 0, n |-> 0]}
    [] goal = "write" -> {[read |-> FALSE, offset |-> place, n |-> n] :
                            n \in {m \in ChunkLengths : place + m <= total}}
    [] goal = "end"   -> {[read |-> FALSE, n |-> 0,
                           offset |-> IF total = 0 THEN kFileReservedPosition ELSE total]}
    [] goal = "read"  -> {[read |-> TRUE, offset |-> place, n |-> n] : n \in ChunkLengths}
    [] goal \in {"done", "wrong"} -> {}

\* Sent once, or again because no answer came.
ClientSends ==
  /\ sends < MaxSends /\ sends' = sends + 1
  /\ Len(requests) + Len(replies) < MaxInFlight
  /\ \E q \in Question : requests' = Append(requests, q)
  /\ UNCHANGED <<readonly, total, data, finalized, replies, goal, place, reboots>>

Forward(p) == place' = p /\ goal' = IF p = total THEN "end" ELSE "write"

\* An answer to another question is passed over.
ClientHears ==
  /\ replies # <<>> /\ replies' = Tail(replies)
  /\ LET r == Head(replies)
     IN IF r.to \notin Question THEN UNCHANGED <<goal, place>>
        ELSE IF ~r.done THEN goal' = "start" /\ place' = 0
        ELSE CASE goal = "start" -> Forward(0)
               [] goal = "write" -> Forward(place + r.to.n)
               [] goal = "end"   -> goal' = (IF total = 0 THEN "done" ELSE "read") /\ place' = 0
               [] goal = "read"  ->
                    /\ place' = place + Len(r.data)
                    /\ goal' = IF r.data # SubSeq(Source, place + 1, place + Len(r.data))
                               THEN "wrong" ELSE IF place' = total THEN "done" ELSE "read"
  /\ UNCHANGED <<readonly, total, data, finalized, requests, sends, reboots>>

Lost ==
  /\ \/ \E i \in 1..Len(requests) : requests' = RemoveAt(requests, i) /\ UNCHANGED replies
     \/ \E i \in 1..Len(replies) : replies' = RemoveAt(replies, i) /\ UNCHANGED requests
  /\ UNCHANGED <<readonly, total, data, finalized, goal, place, sends, reboots>>

UploadInit ==
  /\ readonly \in BOOLEAN /\ total \in Lengths
  /\ data = <<>> /\ finalized = TRUE
  /\ requests = <<>> /\ replies = <<>>
  /\ goal = "start" /\ place = 0 /\ sends = 0 /\ reboots = 0

UploadNext ==
  ClientSends \/ ClientHears \/ Lost \/ DeviceWrites \/ DeviceReads \/ DeviceRestarts

UploadSpec == UploadInit /\ [][UploadNext]_uploadVars

-----------------------------------------------------------------------------
\* Whoever was told that the upload is complete finds the content there, whole and in
\* order: whatever was lost or repeated, and though chunks after a restart of the
\* device are accepted and dropped.  Only a restart after the end takes it away.
UploadIsWhole ==
  /\ goal \in {"read", "done"} => (data = Source /\ finalized) \/ (reboots > 0 /\ size = 0)
  /\ goal # "wrong"
=============================================================================

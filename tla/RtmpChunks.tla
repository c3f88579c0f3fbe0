----------------------------- MODULE RtmpChunks -----------------------------
(***************************************************************************)
(* pili-librtmp's chunk layer: PILI_RTMP_SendPacket cuts a message into    *)
(* chunks and leaves out of a header what the reader knows from the        *)
(* message before it on that channel; PILI_RTMP_ReadPacket puts messages   *)
(* together again.  Each side keeps the last header of every channel, and  *)
(* the two must agree on it, on the size of a chunk and on the time base.  *)
(*                                                                         *)
(* The wire carries chunks in TCP order.  A byte count is a number of body *)
(* units; 2^32 and 0xffffff are the constants TsMod and TsMark.            *)
(***************************************************************************)
EXTENDS Naturals, Sequences

CONSTANTS
  TsMod,         \* 2^32: timestamps are uint32_t
  TsMark,        \* 0xffffff: a larger one follows in an extended field
  Timestamps,    \* timestamps of audio and video
  Sizes,         \* body sizes of audio and video
  CommandSizes,  \* body sizes of commands
  HeadSize,      \* body size of an audio header (4 in sendPacket)
  ChunkSizes,    \* chunk sizes a peer may announce
  DefaultChunk,  \* RTMP_DEFAULT_CHUNKSIZE
  MaxFlight      \* bound: messages sent and not received yet

ASSUME ChunksAssumption ==
  /\ TsMod \in Nat \ {0} /\ TsMark \in 1..(TsMod - 1)
  /\ Timestamps \subseteq 0..(TsMod - 1)
  /\ (Sizes \cup CommandSizes) \subseteq Nat \ {0} /\ HeadSize \in (Nat \ {0}) \ Sizes
  /\ ChunkSizes \subseteq Nat \ {0} /\ DefaultChunk \in Nat \ {0}
  /\ MaxFlight \in Nat \ {0}

VARIABLES
  vecChannelsOut,    \* last packet sent on each channel
  outChunkSize,
  wire,              \* chunks on their way
  vecChannelsIn,     \* last packet read on each channel, maybe not all of it
  channelTimestamp,  \* abs timestamp of last packet
  inChunkSize,
  hasAbs,            \* m_hasAbsTimestamp of the packet the caller passes in
  misread,           \* the reader took a chunk for something it is not
  track,             \* history: per channel, the difference sent last (field),
                     \* and whether the differences add up (exact)
  flight,            \* history: messages sent and not received, per channel
  received           \* history: the message received last (message), its channel
                     \* and the message that was sent (sent)

outVars == <<vecChannelsOut, outChunkSize, track>>
inVars  == <<vecChannelsIn, channelTimestamp, inChunkSize, hasAbs, misread>>
vars == <<outVars, wire, inVars, flight, received>>

Channel    == {"control", "command", "media"}     \* 2, 3 and 4
HeaderType == {"large", "medium", "small", "minimum"}
Type       == {"chunksize", "invoke", "audio", "video"}
Timestamp  == 0..(TsMod - 1)
None       == [type |-> "none"]

HasTimestamp(fmt) == fmt # "minimum"            \* packetSize > 1
HasSize(fmt)      == fmt \in {"large", "medium"}  \* packetSize > 4

AtMost(m, n) == IF m < n THEN m ELSE n

TypeOK ==
  /\ \A c \in Channel :
       /\ vecChannelsOut[c] = None \/
            (vecChannelsOut[c].ts \in Timestamp /\ vecChannelsOut[c].type \in Type)
       /\ vecChannelsIn[c] = None \/
            (vecChannelsIn[c].ts \in Timestamp /\ vecChannelsIn[c].type \in Type
             /\ Len(vecChannelsIn[c].body) <= vecChannelsIn[c].size)
  /\ channelTimestamp \in [Channel -> Timestamp]
  /\ inChunkSize \in Nat \ {0} /\ outChunkSize \in Nat \ {0}
  /\ hasAbs \in BOOLEAN /\ misread \in BOOLEAN
  /\ \A i \in 1..Len(wire) : wire[i].chan \in Channel /\ wire[i].fmt \in HeaderType

Init ==
  /\ vecChannelsOut = [c \in Channel |-> None] /\ outChunkSize = DefaultChunk
  /\ wire = <<>>
  /\ vecChannelsIn = [c \in Channel |-> None]
  /\ channelTimestamp = [c \in Channel |-> 0]
  /\ inChunkSize = DefaultChunk /\ hasAbs = FALSE /\ misread = FALSE
  /\ track = [c \in Channel |-> [field |-> 0, exact |-> TRUE]]
  /\ flight = [c \in Channel |-> <<>>]
  /\ received = None

-----------------------------------------------------------------------------
(* PILI_RTMP_SendPacket *)

(* The header type after "compress a bit by using the prev packet's        *)
(* attributes".                                                            *)
Compressed_TypeIgnored(prev, p) ==    \* mutant: another type counts as same
  LET small == prev # None /\ p.fmt = "medium" /\ prev.size = p.size
  IN  IF ~small THEN p.fmt ELSE IF prev.ts = p.ts THEN "minimum" ELSE "small"
Compressed(prev, p) ==
  LET small == prev # None /\ p.fmt = "medium" /\ prev.size = p.size /\ prev.type = p.type
  IN  IF ~small THEN p.fmt ELSE IF prev.ts = p.ts THEN "minimum" ELSE "small"

(* t: a large header carries the timestamp itself, another one the         *)
(* difference to the packet before it.                                     *)
Delta_Always(prev, p) == (p.ts - (IF prev = None THEN 0 ELSE prev.ts)) % TsMod  \* mutant
Delta(prev, p) ==
  (p.ts - (IF prev = None \/ p.fmt = "large" THEN 0 ELSE prev.ts)) % TsMod

Extended_Above(t) == t > TsMark    \* mutant: 0xffffff itself goes without
Extended(t) == t >= TsMark

(* The header and the first part of the body. *)
FirstChunk(prev, p) ==
  LET t   == Delta(prev, p)
      fmt == Compressed(prev, p)
      ext == HasTimestamp(fmt) /\ Extended(t)
  IN  [chan |-> p.chan, fmt |-> fmt,
       ts   |-> IF HasTimestamp(fmt) THEN AtMost(t, TsMark) ELSE 0,
       hasExt |-> ext, ext |-> IF ext THEN t ELSE 0,
       size |-> IF HasSize(fmt) THEN p.size ELSE 0,
       type |-> IF HasSize(fmt) THEN p.type ELSE "none",
       data |-> SubSeq(p.body, 1, AtMost(p.size, outChunkSize))]

(* A one-byte header (0xc0 | c) and the i-th part of the body. *)
NextChunk(p, i) ==
  [chan |-> p.chan, fmt |-> "minimum", ts |-> 0, hasExt |-> FALSE, ext |-> 0,
   size |-> 0, type |-> "none",
   data |-> SubSeq(p.body, i * outChunkSize + 1, AtMost(p.size, (i + 1) * outChunkSize))]

Chunks(p) ==
  <<FirstChunk(vecChannelsOut[p.chan], p)>> \o
    [i \in 1..((p.size - 1) \div outChunkSize) |-> NextChunk(p, i)]

(* History: does the reader's sum of differences still give the sender's   *)
(* timestamp?  A minimum header means "nothing changed" to the sender,     *)
(* whose timestamp is the same, and to the reader that the last difference *)
(* is to be added again.                                                   *)
Tracked(prev, p) ==
  LET again == Compressed(prev, p) = "minimum"
  IN  [field |-> IF again THEN track[p.chan].field ELSE Delta(prev, p),
       exact |-> \/ p.fmt = "large"
                 \/ track[p.chan].exact /\ (again => track[p.chan].field = 0)]

(* All chunks are written, then the packet is kept as the channel's last.  *)
SendPacket(p) ==
  LET prev == vecChannelsOut[p.chan]
  IN  /\ wire' = wire \o Chunks(p)
      /\ vecChannelsOut' = [vecChannelsOut EXCEPT ![p.chan] =
           [type |-> p.type, size |-> p.size, ts |-> p.ts]]
      /\ track' = [track EXCEPT ![p.chan] = Tracked(prev, p)]
      /\ flight' = [flight EXCEPT ![p.chan] =
           Append(@, [type |-> p.type, body |-> p.body, ts |-> p.ts,
                      exact |-> Tracked(prev, p).exact])]
      /\ UNCHANGED <<inVars, received>>

-----------------------------------------------------------------------------
(* What is sent *)

InFlight == Len(flight["control"]) + Len(flight["command"]) + Len(flight["media"])
MayStart == InFlight < MaxFlight

(* A name for the next message that no message in flight has. *)
Used == UNION {{m.body[1] : m \in {flight[c][i] : i \in 1..Len(flight[c])}} : c \in Channel}
Fresh == CHOOSE n \in 1..(MaxFlight + 1) : n \notin Used /\ \A k \in 1..(n - 1) : k \in Used

Packet(c, fmt, type, size, ts) ==
  [chan |-> c, fmt |-> fmt, type |-> type, size |-> size, ts |-> ts,
   body |-> [i \in 1..size |-> Fresh]]

(* The commands of the library: connect and _checkbw have a large header,  *)
(* the others a medium one.                                                *)
SendCommand ==
  /\ MayStart
  /\ \E fmt \in {"large", "medium"}, size \in CommandSizes :
       SendPacket(Packet("command", fmt, "invoke", size, 0))
  /\ UNCHANGED outChunkSize

(* publish, on the channel the frames will use *)
SendPublish ==
  /\ MayStart
  /\ \E size \in CommandSizes : SendPacket(Packet("media", "large", "invoke", size, 0))
  /\ UNCHANGED outChunkSize

(* sendPacket:data:size:nTimestamp: of the socket: a large header, except  *)
(* for audio that is not four bytes long.                                  *)
SendFrame ==
  /\ MayStart
  /\ \/ \E size \in Sizes, ts \in Timestamps :
          \/ SendPacket(Packet("media", "large", "video", size, ts))
          \/ SendPacket(Packet("media", "medium", "audio", size, ts))
     \/ SendPacket(Packet("media", "large", "audio", HeadSize, 0))
  /\ UNCHANGED outChunkSize

(* A peer that uses another chunk size says so; this library never does.   *)
AnnounceChunkSize ==
  /\ MayStart
  /\ \E n \in ChunkSizes \ {outChunkSize} :
       /\ SendPacket([Packet("control", "large", "chunksize", 1, 0) EXCEPT !.body = <<n>>])
       /\ outChunkSize' = n

(* A peer may interleave the chunks of two messages on different channels. *)
Interleave ==
  /\ \E i \in 1..(Len(wire) - 1) :
       /\ wire[i].chan # wire[i + 1].chan
       /\ "control" \notin {wire[i].chan, wire[i + 1].chan}
       /\ wire' = [wire EXCEPT ![i] = wire[i + 1], ![i + 1] = wire[i]]
  /\ UNCHANGED <<outVars, inVars, flight, received>>

-----------------------------------------------------------------------------
(* PILI_RTMP_ReadPacket *)

(* What a packet starts from: the last one of the channel, unless the      *)
(* header is a large one or there is none.                                 *)
Base(k) ==
  IF k.fmt # "large" /\ vecChannelsIn[k.chan] # None
  THEN vecChannelsIn[k.chan]
  ELSE [type |-> "none", size |-> 0, ts |-> 0, body |-> <<>>,
        hasAbs |-> (k.fmt = "large" \/ hasAbs)]

(* The packet after the header and this chunk's part of the body.          *)
Read(k) ==
  LET base == Base(k)
      ts   == IF ~HasTimestamp(k.fmt) THEN base.ts
              ELSE IF k.ts = TsMark THEN k.ext ELSE k.ts
  IN  [type |-> IF HasSize(k.fmt) THEN k.type ELSE base.type,
       size |-> IF HasSize(k.fmt) THEN k.size ELSE base.size,
       ts |-> ts, hasAbs |-> base.hasAbs,
       body |-> (IF HasSize(k.fmt) THEN <<>> ELSE base.body) \o k.data]

(* How much of the body the reader takes, and whether it looks for an      *)
(* extended timestamp, is what the sender has written.                     *)
Fits(k) ==
  /\ Len(k.data) = AtMost(inChunkSize, Read(k).size - (Len(Read(k).body) - Len(k.data)))
  /\ k.hasExt <=> HasTimestamp(k.fmt) /\ k.ts = TsMark

IsReady(p) == Len(p.body) = p.size

(* "make packet's timestamp absolute" *)
Absolute_OfLarge(p, c) == (p.ts + channelTimestamp[c]) % TsMod    \* mutant
Absolute(p, c) == IF p.hasAbs THEN p.ts ELSE (p.ts + channelTimestamp[c]) % TsMod

(* "reset the data from the stored packet": the header stays for packets   *)
(* that re-use it.                                                         *)
Reset(p) == [p EXCEPT !.body = <<>>, !.hasAbs = FALSE]

(* HandleChangeChunkSize, which the caller reaches before it reads again.  *)
ChunkSizeAfter_Ignored(p) == inChunkSize    \* mutant
ChunkSizeAfter(p) ==
  IF IsReady(p) /\ p.type = "chunksize" THEN p.body[1] ELSE inChunkSize

ReadPacket ==
  /\ wire # <<>> /\ ~misread
  /\ LET k == Head(wire)
         c == k.chan
         p == Read(k)
     IN  /\ misread' = ~Fits(k)
         /\ hasAbs' = p.hasAbs
         /\ inChunkSize' = ChunkSizeAfter(p)
         /\ vecChannelsIn' = [vecChannelsIn EXCEPT ![c] = IF IsReady(p) THEN Reset(p) ELSE p]
         /\ IF IsReady(p)
            THEN /\ channelTimestamp' = [channelTimestamp EXCEPT ![c] = Absolute(p, c)]
                 /\ received' = [chan |-> c, sent |-> Head(flight[c]),
                      message |-> [type |-> p.type, body |-> p.body, ts |-> Absolute(p, c)]]
                 /\ flight' = [flight EXCEPT ![c] = Tail(@)]
            ELSE UNCHANGED <<channelTimestamp, received, flight>>
  /\ wire' = Tail(wire)
  /\ UNCHANGED outVars

-----------------------------------------------------------------------------

Next ==
  \/ SendCommand \/ SendPublish \/ SendFrame \/ AnnounceChunkSize
  \/ Interleave
  \/ ReadPacket

Spec == Init /\ [][Next]_vars

-----------------------------------------------------------------------------
(* Properties *)

(* The reader never takes a chunk for something it is not: it agrees with  *)
(* the sender about the size of every chunk, also when a new chunk size    *)
(* follows messages that are still on their way, and about which headers   *)
(* carry an extended timestamp.  With it the types, and that no body grows *)
(* past the size its header gave (TypeOK).                                 *)
InStep ==
  /\ TypeOK
  /\ ~misread

(* What is received on a channel are the messages sent on it, whole, once  *)
(* and in order, however chunks of different channels are interleaved and  *)
(* whatever was left out of their headers.                                 *)
Content(m) == [type |-> m.type, body |-> m.body]
Fifo == INSTANCE RtmpChannel WITH
  Channels <- Channel, Nothing <- None,
  flight <- [c \in Channel |-> [i \in 1..Len(flight[c]) |-> Content(flight[c][i])]],
  latest <- IF received = None THEN None 
            ELSE [chan |-> received.chan, message |-> Content(received.message)]
FifoSpec == Fifo!Spec

(* A message is received with the timestamp it was sent with, also when    *)
(* differences wrap around or reach the extended field, unless a minimum   *)
(* header has repeated a difference since the last large header: audio     *)
(* frames of one size and one timestamp in a row move the reader's clock   *)
(* away from the sender's, until the next picture sets it right.           *)
TimestampsKept ==
  received # None => (received.sent.exact => received.message.ts = received.sent.ts)

=============================================================================

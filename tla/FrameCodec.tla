------------------------------ MODULE FrameCodec ------------------------------
(***************************************************************************)
(* From an image message to the number it puts into the bright-field image: *)
(* the CPU's decode (ingest/dectris_decode.py), the GPU's                   *)
(* (ingest/gpu_decode.py), the framing both read (ingest/bslz4.py) and the  *)
(* weighted sum (virtual_detectors/vbf.py).                                 *)
(*                                                                         *)
(* A message is [kind, id, readable, shape, dtype, elem, algorithm, size,   *)
(* block, blocks, images]: the shape of the frame, the type of its pixels   *)
(* [width, big, signed], the container's header (uncompressed size, size of *)
(* a block, both in bytes) and its blocks [claim, stored, sound, raw]: the  *)
(* compressed length the prefix claims and the one that is there, whether   *)
(* LZ4 accepts the block, and the pixels it holds, as unsigned numbers of   *)
(* dtype.  A START carries the announced shape, <<>> when absent, and the   *)
(* announced number of images.                                              *)
(***************************************************************************)
EXTENDS Integers, Sequences, SequencesExt

CONSTANTS
  ByteValues,     \* values of a byte
  Detector,       \* detector_shape
  Positions,      \* num_positions
  Centre, Radius  \* bf_center_yx and bf_radius_px

ASSUME CodecAssumption ==
  ByteValues \in Nat \ {0, 1} /\ Positions \in Nat /\ Detector \in (Nat \ {0}) \X (Nat \ {0})

Undefined == -1000   \* a number that nothing determines

Area(shape) == shape[1] * shape[2]

-----------------------------------------------------------------------------
(* Framing                                                                   *)

BlockCount(m) == (m.size + m.block - 1) \div m.block

\* Bytes of block k of a frame cut by the header of m.
BlockLength(m, k) == IF k * m.block <= m.size THEN m.block ELSE m.size - (k - 1) * m.block

Claimed(b) == b.claim = b.stored

\* parse_bslz4_blocks: the container is whole and its prefixes agree with it.
WellFramed(m) ==
  /\ m.block # 0 /\ Len(m.blocks) = BlockCount(m)
  /\ \A k \in DOMAIN m.blocks : m.blocks[k].claim # 0 /\ Claimed(m.blocks[k])

\* decode's own walk takes a block where the prefixes before it lead, and trusts its own.
Found(m, k) == k \in DOMAIN m.blocks /\ \A j \in 1 .. k : Claimed(m.blocks[j])

\* LZ4 yields the pixels of a block of that many bytes.
Inflates(m, k, length) ==
  m.blocks[k].sound /\ Len(m.blocks[k].raw) * m.dtype.width = length

-----------------------------------------------------------------------------
(* Pixels                                                                    *)

Half(width) == ByteValues ^ width \div 2

\* The bits of an unsigned number read as a signed one.
AsSigned(n, width) == IF n >= Half(width) THEN n - 2 * Half(width) ELSE n

\* decode_typed_array
TypedValue(n, dtype) == IF dtype.signed THEN AsSigned(n, dtype.width) ELSE n

\* Pixel i of a frame cut by the header of m, from the block that holds it.
BlockOf(m, i) == ((i - 1) * m.dtype.width) \div m.block + 1
RawPixel(m, i) == m.blocks[BlockOf(m, i)].raw[((i - 1) % (m.block \div m.dtype.width)) + 1]

\* extract_image: the id and the payload are where they should be.
HasImage(m) == m.readable

\* decode_dectris_compression: decompress raises on an unsound container.
Decompresses(m) ==
  WellFramed(m) /\ \A k \in DOMAIN m.blocks : Inflates(m, k, BlockLength(m, k))

\* decode_multi_dim_array: reshape raises on another number of pixels.
Reshapes(m) == m.size = Area(m.shape) * m.dtype.width

\* decode_message
CpuReads(m) == HasImage(m) /\ Decompresses(m) /\ Reshapes(m)

\* _to_int_tensor: 32-bit counts are reinterpreted, the others fit an int32 as they are.
ToIntTensor(n, dtype) == IF dtype.width = 4 /\ ~dtype.signed THEN AsSigned(n, 4) ELSE n

CpuPixel(m, i) == ToIntTensor(TypedValue(RawPixel(m, i), m.dtype), m.dtype)

-----------------------------------------------------------------------------
(* The GPU's decode                                                          *)

\* decode_envelope: the payload is not looked into.
GpuReads(m) == HasImage(m)

\* The chunk is decoded as one: the element width is its last frame's, the header its first
\* frame's, and the view as (n, H, W) raises when they do not give the configured shape.
GpuFits(messages) == messages[1].size = Area(Detector) * Last(messages).elem

\* The full blocks of all frames are unshuffled in one launch, the short last one of a frame in
\* another, with its own length.
UnshuffleLength(first, k) ==
  IF first.size % first.block = 0 \/ k < BlockCount(first)
  THEN first.block
  ELSE first.size - (BlockCount(first) - 1) * first.block

\* Every frame is walked by the header of the first.  No block's status is asked for: what a
\* wrong pointer or length yields, or an unshuffle of what was not shuffled, is undefined.
Recovered(m, first, k) ==
  /\ Found(m, k) /\ Inflates(m, k, BlockLength(first, k))
  /\ UnshuffleLength(first, k) = BlockLength(first, k)
  /\ m.algorithm = "bslz4"

\* decode_int_frames: little-endian and unsigned whatever the dtype.
IntPixel(n, elem) ==
  CASE elem = 4 -> AsSigned(n, 4)
    [] elem = 2 -> AsSigned(n, 2) % (2 * Half(2))
    [] elem = 1 -> n

GpuPixel(m, first, elem, i) ==
  IF elem = m.dtype.width /\ ~m.dtype.big /\ Recovered(m, first, BlockOf(first, i))
  THEN IntPixel(RawPixel(m, i), elem)
  ELSE Undefined

-----------------------------------------------------------------------------
(* The weighted sum                                                          *)

Square(n) == n * n

InDisk(i) ==
  Square((i - 1) \div Detector[2] - Centre[1]) + Square(((i - 1) % Detector[2]) - Centre[2])
    <= Square(Radius)

\* build_weight_map
WeightMap(flatfield, deadPx) ==
  [i \in 1 .. Area(Detector) |-> IF InDisk(i) THEN deadPx[i] * flatfield[i] ELSE 0]

\* _reduce_into
Reduced(pixels, weights) ==
  LET seen == {i \in DOMAIN pixels : weights[i] # 0}
      Sum[i \in 0 .. Area(Detector)] ==
        IF i = 0 THEN 0 ELSE Sum[i - 1] + (IF i \in seen THEN pixels[i] * weights[i] ELSE 0)
  IN IF \E i \in seen : pixels[i] = Undefined THEN Undefined ELSE Sum[Area(Detector)]

-----------------------------------------------------------------------------
\* validate_start: what a START does not announce is not compared.
Admits(start) ==
  /\ start.readable
  /\ start.shape = <<>> \/ start.shape = Detector
  /\ start.images <= Positions
=============================================================================

------------------------------- MODULE Sparse -------------------------------
(***************************************************************************)
(* Expanding a sparse image (qedl-image/src/sparse.rs): a header, and      *)
(* chunks that are raw bytes, a fill word, a hole or a checksum.  A file   *)
(* is a sequence of bytes.                                                 *)
(***************************************************************************)
EXTENDS Integers, Sequences

\* The little-endian numbers behind the offset-th byte.
Le16(b, offset) == b[offset + 1] + 256 * b[offset + 2]
Le32(b, offset) == Le16(b, offset) + 65536 * Le16(b, offset + 2)

HeaderSize == 28
ChunkHeaderSize == 12
SparseMagic == <<58, 255, 38, 237>>

\* SparseHeader::from_bytes, the magic and length it asks for.
IsSparse(b) == Len(b) >= HeaderSize /\ SubSeq(b, 1, 4) = SparseMagic
FileHeader(b)  == Le16(b, 8)
ChunkHeader(b) == Le16(b, 10)
BlockSize(b)   == Le32(b, 12)

\* ChunkType::from_u16
ChunkType(v) == CASE v = 51905 -> "raw" [] v = 51906 -> "fill" [] v = 51907 -> "hole"
                  [] v = 51908 -> "crc" [] OTHER -> "none"

Zero(n)      == [i \in 1..n |-> 0]
Repeat(w, n) == [i \in 1..n |-> w[((i - 1) % Len(w)) + 1]]

(* for_each_chunk and expand_to_vec, from the chunk at pos on.  The size   *)
(* in a chunk's header is taken for a number of bytes; for a fill chunk a  *)
(* block is put out for every four of them.  Less than a header at the end *)
(* is the end; a chunk that is cut short, or of no known type, an error,   *)
(* and so is a header of no bytes, wherever it is read.                    *)
(* Blocks are a multiple of four bytes, and not of none.                   *)
Body(type, b, pos, size) ==
  CASE type = "raw"  -> SubSeq(b, pos + 1, pos + size)
    [] type = "fill" -> Repeat(SubSeq(b, pos + 1, pos + 4), (size \div 4) * BlockSize(b))
    [] type = "hole" -> Zero(size)
    [] type = "crc"  -> <<>>
Stored(type, size) ==
  CASE type = "raw" -> size [] type = "fill" -> 4 [] type = "hole" -> 0 [] type = "crc" -> size

\* The chunk at pos, and where the next one is.
TypeAt(b, pos) == ChunkType(Le16(b, pos))
SizeAt(b, pos) == Le32(b, pos + 4)
Behind(b, pos) == pos + ChunkHeader(b) + Stored(TypeAt(b, pos), SizeAt(b, pos))

Bad     == [ok |-> FALSE, out |-> <<>>]
Nothing == [ok |-> TRUE, out |-> <<>>]

\* What there is from pos on, if behind the chunk there it is rest.
FromChunk(b, pos, rest) ==
  IF ChunkHeader(b) > 0 /\ pos + ChunkHeader(b) > Len(b) THEN Nothing
  ELSE IF ChunkHeader(b) < ChunkHeaderSize \/ TypeAt(b, pos) = "none" THEN Bad
  ELSE IF Behind(b, pos) > Len(b) THEN IF TypeAt(b, pos) = "crc" THEN Nothing ELSE Bad
  ELSE IF ~rest.ok THEN Bad
  ELSE [ok  |-> TRUE,
        out |-> Body(TypeAt(b, pos), b, pos + ChunkHeader(b), SizeAt(b, pos)) \o rest.out]

\* A file header shorter than HeaderSize is gone back to in a release build, as
\* here; where overflow is checked (a debug build) the subtraction panics.
Expand(b) ==
  LET from[pos \in Nat] == FromChunk(b, pos, from[Behind(b, pos)])
  IN IF IsSparse(b) THEN from[FileHeader(b)] ELSE Bad
=============================================================================

-------------------------------- MODULE Inodes --------------------------------
(***************************************************************************)
(* The data of files: filesystem.c's read_data over the blocks an inode    *)
(* lists, and the reading of a file from its start to its end.             *)
(***************************************************************************)
EXTENDS Integers, SequencesExt

CONSTANT BLOCK_SIZE     \* 4096

ASSUME BlockAssumption == BLOCK_SIZE \in Nat \ {0}

(* An inode has a file_length and the data blocks, in the order of the     *)
(* file.                                                                   *)
DataBlock(inode, i) == inode.blocks[i + 1]

(* Where in its block byte x of the file is; mutant: counted from 1.       *)
BlockOffsetOne(x) == (x + 1) % BLOCK_SIZE

BlockOffset(x) == x % BLOCK_SIZE

(* The bytes it copies: the end of the first block, whole blocks, and the  *)
(* beginning of the last; their number is its result.                      *)
read_data(inode, offset, length) ==
  LET n == IF length + offset > inode.file_length THEN inode.file_length - offset ELSE length
      begin == offset \div BLOCK_SIZE  end == (offset + n - 1) \div BLOCK_SIZE
      Part(i) == SubSeq(DataBlock(inode, i),
                        IF i = begin THEN BlockOffset(offset) + 1 ELSE 1,
                        IF i = end THEN BlockOffset(offset + n - 1) + 1 ELSE BLOCK_SIZE)
  IN IF length = 0 \/ offset >= inode.file_length THEN <<>>
     ELSE FlattenSeq([k \in 1..(end - begin + 1) |-> Part(begin + k - 1)])

(* file_read and read until the result is 0                                *)
ReadOn(inode, position, nbytes) ==
  LET r[p \in 0..inode.file_length] ==
        LET b == read_data(inode, p, nbytes) IN IF b = <<>> THEN <<>> ELSE b \o r[p + Len(b)]
  IN r[position]
=============================================================================

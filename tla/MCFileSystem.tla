---------------------------- MODULE MCFileSystem ----------------------------
(* FileSystem on a disk of nine sectors, five of them the file system's.   *)
EXTENDS FileSystem

\* One byte, and more bytes than a sector holds.
MCBuffers == {<<1>>, <<2, 1, 2>>}

MCSymmetry == Permutations(Names)
=============================================================================

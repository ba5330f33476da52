------------------------------ MODULE TarStream ------------------------------
(***************************************************************************)
(* archive/tar's Writer, as far as the packagers depend on it.  The header *)
(* of a member announces its size, and the writer refuses every other      *)
(* number of bytes: too many at once, too few as soon as the next header   *)
(* is written or the archive is closed.                                    *)
(*                                                                         *)
(* A tar is its members and the bytes the last one still lacks.            *)
(***************************************************************************)
EXTENDS Naturals, Sequences

EmptyTar == [members |-> <<>>, owed |-> 0]

(* WriteHeader and Close succeed. *)
Settled(tar) == tar.owed = 0

(* The copy of length bytes behind a header that announced size succeeds.  *)
Fits(size, length) == length <= size

WithMember(tar, member, size, length) ==
    [members |-> Append(tar.members, member), owed |-> size - length]

-----------------------------------------------------------------------------
(* What the properties of the packagers are stated with: the files among   *)
(* the members, in their order, and the sum of a sequence of numbers.      *)
FilesUpTo(members) ==
    LET upTo[n \in 0..Len(members)] ==
          IF n = 0 THEN <<>>
          ELSE IF members[n].kind = "file" THEN Append(upTo[n - 1], members[n])
          ELSE upTo[n - 1]
    IN upTo

Files(members) == FilesUpTo(members)[Len(members)]

Sums(numbers) ==
    LET upTo[n \in 0..Len(numbers)] == IF n = 0 THEN 0 ELSE upTo[n - 1] + numbers[n]
    IN upTo

Total(numbers) == Sums(numbers)[Len(numbers)]
===============================================================================

------------------------------ MODULE TgzSegment ------------------------------
(***************************************************************************)
(* The stack of writers of writeTgz (apk/apk.go): archive/tar on a bufio   *)
(* of 4096 bytes on a byte counter on gzip, which feeds a digest and the   *)
(* caller.  An apk is up to three of these segments one after the other,   *)
(* and a reader takes the concatenation for one tar.  So only the last     *)
(* segment may have the two zero blocks that end a tar, and the others     *)
(* must end at a block boundary.                                           *)
(*                                                                         *)
(* A byte is a record that says what it belongs to; the first byte of a    *)
(* header also knows the size the header announces.  Compression keeps     *)
(* bytes apart that are apart and is left out, and so are the additional   *)
(* blocks of a PAX header.                                                 *)
(***************************************************************************)
EXTENDS Naturals, Sequences

CONSTANTS
    Block,      \* the block size of a tar: 512 in the code
    BufSize     \* of the bufio.Writer: 4096 in the code

(* The buffer holds what the Close of a tar writes: the rest of a block    *)
(* and two blocks.                                                         *)
ASSUME BlockAssumption ==
    /\ Block \in Nat \ {0} /\ BufSize \in Nat \ {0}
    /\ BufSize >= 3 * Block

Byte(of, size) == [of |-> of, size |-> size]

Zeros(n) == [i \in 1..n |-> Byte("zero", 0)]

Repeat(of, n) == [i \in 1..n |-> Byte(of, 0)]

Header(name, size) == <<Byte(name, size)>> \o Repeat("header", Block - 1)

RoundedUp(n) == ((n + Block - 1) \div Block) * Block

(* out is what gzip got, digested what its digest did; buffer is held back *)
(* in bufio; owed and pad are the bytes tar expects and those it will fill *)
(* the last block with.                                                    *)
EmptySegment ==
    [out |-> <<>>, digested |-> <<>>, buffer |-> <<>>, owed |-> 0, pad |-> 0]

Pass(s, bytes) == [s EXCEPT !.out = @ \o bytes, !.digested = @ \o bytes]

Flushed(s) == [Pass(s, s.buffer) EXCEPT !.buffer = <<>>]

(* Mutant: the buffer takes a byte too many. *)
BufferedOver(s, bytes) ==
    IF Len(bytes) <= BufSize - Len(s.buffer) + 1 THEN [s EXCEPT !.buffer = @ \o bytes]
    ELSE Pass(Flushed(s), bytes)

(* bufio.Writer.Write: fill the buffer and flush it; what is larger than   *)
(* an empty buffer goes past it.                                           *)
Buffered(s, bytes) ==
    LET free  == BufSize - Len(s.buffer)
        first == SubSeq(bytes, 1, free)
        rest  == SubSeq(bytes, free + 1, Len(bytes))
        full  == Flushed([s EXCEPT !.buffer = @ \o first])
    IN IF Len(bytes) <= free THEN [s EXCEPT !.buffer = @ \o bytes]
       ELSE IF s.buffer = <<>> THEN Pass(s, bytes)
       ELSE IF Len(rest) <= BufSize THEN [full EXCEPT !.buffer = rest]
       ELSE Pass(full, rest)

(* tar.Writer.WriteHeader and Close first fill the last block. *)
Padded(s) == [Buffered(s, Zeros(s.pad)) EXCEPT !.pad = 0]

Settled(s) == s.owed = 0

(* A header that announces size and a body of length bytes of version, for *)
(* a settled segment and length <= size.                                   *)
WithMember(s, name, size, of, length) ==
    [Buffered(Buffered(Padded(s), Header(name, size)), Repeat(of, length))
        EXCEPT !.owed = size - length, !.pad = RoundedUp(size) - size]

(* The two zero blocks are two writes. *)
TarClosed(s) == Buffered(Buffered(Padded(s), Zeros(Block)), Zeros(Block))

(* Mutant: the fill-up is kept from the digest. *)
AlignedUndigested(s) ==
    [s EXCEPT !.out = @ \o Zeros(RoundedUp(Len(s.out)) - Len(s.out))]

Aligned(s) == Pass(s, Zeros(RoundedUp(Len(s.out)) - Len(s.out)))

(* Mutant: a cut segment is flushed like a full one. *)
FinishedFull(s, kind) == Aligned(Flushed(TarClosed(Flushed(s))))

(* The end of writeTgz.  A cut segment is not flushed after its tar was    *)
(* closed: what Close wrote stays in the buffer and is dropped with it.    *)
Finished(s, kind) ==
    LET closed == TarClosed(Flushed(s)) IN
    Aligned(IF kind = "full" THEN Flushed(closed) ELSE closed)
===============================================================================

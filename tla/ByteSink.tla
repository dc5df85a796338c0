------------------------------ MODULE ByteSink ------------------------------
(***************************************************************************)
(* A Read + Write + Seek byte store as the encoder uses one (a File or a    *)
(* Cursor): a length and a value for every position below it.  Seeking      *)
(* past the end is allowed and a later write fills the gap with zero bytes.  *)
(* Cells are abstract bytes: they say what a byte is, not its value.        *)
(***************************************************************************)
EXTENDS WriterLayout

Kinds == {"pay", "hdr", "zero", "stale"}

Cells == [kind : Kinds, of : Layouts \cup {""}, n : Nat]

Pay(i)    == [kind |-> "pay",   of |-> "", n |-> i]  \* i-th byte of the caller's PCM
Hdr(l, d) == [kind |-> "hdr",   of |-> l,  n |-> d]  \* a byte of the header (l, d)
Zero      == [kind |-> "zero",  of |-> "", n |-> 0]  \* pad byte or gap
Stale     == [kind |-> "stale", of |-> "", n |-> 0]  \* was there before the writer

IsBytes(b) == /\ b.len \in Nat
              /\ b.at \in [0 .. (b.len - 1) -> Cells]
              /\ b = [len |-> b.len, at |-> b.at]

Repeat(c, k) == [len |-> k, at |-> [i \in 0 .. (k - 1) |-> c]]

NoBytes == [len |-> 0, at |-> [i \in {} |-> Zero]]

Take(b, k) == [len |-> k, at |-> [i \in 0 .. (k - 1) |-> b.at[i]]]

(* b.len bytes of f from position p, what read_exact delivers. *)
Slice(f, p, k) == [len |-> k, at |-> [i \in 0 .. (k - 1) |-> f.at[p + i]]]

Larger(a, b) == IF a >= b THEN a ELSE b

(* f after the bytes b were written at position p. *)
Splice(f, p, b) ==
  IF b.len = 0 THEN f
  ELSE LET n == Larger(f.len, p + b.len)
       IN [len |-> n,
           at  |-> [i \in 0 .. (n - 1) |->
                      IF p <= i /\ i < p + b.len THEN b.at[i - p]
                      ELSE IF i < f.len THEN f.at[i] ELSE Zero]]
=============================================================================

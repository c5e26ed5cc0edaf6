---------------------------- MODULE MCMd5Stream ----------------------------
(* Values of the constants of Md5Stream for TLC: two-bit bytes, words of two
   bytes, and a file that is longer than a word counts, each byte of it with
   a value of its own. *)
EXTENDS Md5Stream, TLC

FortyBytes == [k \in 1..40 |-> 100 + k]

Uninitialised ==
  {[Total |-> <<5, 3>>, State |-> <<7>>, Buffer |-> [k \in 1..Block |-> 8]]}
=============================================================================

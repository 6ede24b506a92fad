---------------------------- MODULE MCFriQueries ----------------------------
(***************************************************************************)
(* Codewords of four and eight values, no reduction, reductions of one     *)
(* arity and of two, caps of one hash, of several, and of a whole layer,   *)
(* in a field whose smallest elements have two encodings.                  *)
(***************************************************************************)
EXTENDS FriQueries

MCShape ==
    { [logN |-> 2, capHeight |-> 0, arities |-> <<>>],
      [logN |-> 2, capHeight |-> 1, arities |-> <<1>>],
      [logN |-> 3, capHeight |-> 0, arities |-> <<1, 1>>],
      [logN |-> 3, capHeight |-> 0, arities |-> <<2>>],
      [logN |-> 3, capHeight |-> 1, arities |-> <<1>>],
      [logN |-> 3, capHeight |-> 1, arities |-> <<1, 1>>] }

=============================================================================

----------------------------- MODULE ByteStream -----------------------------
(***************************************************************************)
(* What each direction of a snow connection promises: bytes come out in    *)
(* the order in which they went in, none twice and none invented, as long  *)
(* as the stream is not broken. A byte is the number of its position.      *)
(***************************************************************************)
EXTENDS Integers, Sequences

VARIABLES
  put,       \* how many bytes went in
  got,       \* the bytes that came out
  broken     \* the promise is off

vars == <<put, got, broken>>

Init == put = 0 /\ got = <<>> /\ broken = FALSE

Flow ==
  /\ UNCHANGED broken
  /\ put' \in Nat /\ put' >= put
  /\ \E n \in Len(got) .. put' : got' = [i \in 1 .. n |-> i]

Break == broken'

Next == (~broken /\ Flow) \/ Break

Spec == Init /\ [][Next]_vars
=============================================================================

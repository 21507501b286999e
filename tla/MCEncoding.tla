----------------------------- MODULE MCEncoding -----------------------------
(* An instance of Encoding for TLC: bytes of two bits, fields of four bytes;  *)
(* one address in four has a checksum that ends in a zero byte.               *)
EXTENDS Encoding

mcSenders == {<<0, 0, 1, 2>>, <<3, 0, 0, 0>>, <<0, 0, 0, 0>>}
mcIds == {<<a, b, c, d>> : a \in {0, 3}, b \in {0, 1}, c \in {0, 2}, d \in {0, 1}}
=============================================================================

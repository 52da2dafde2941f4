----------------------------- MODULE MCStreams -----------------------------
EXTENDS Streams

(* Nothing at first, then some bytes at once; and one byte each.              *)
Yields == {<<0, 2, 3, 3>>, <<1, 2, 3, 4, 5>>}
=============================================================================

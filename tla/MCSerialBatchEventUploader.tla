--------------------- MODULE MCSerialBatchEventUploader ---------------------
(* Small instances of SerialBatchEventUploader for TLC.                    *)
EXTENDS SerialBatchEventUploader

CONSTANTS c1, c2

Enq(n) == [op |-> "enqueue", size |-> n]
Write(n) == [op |-> "write", size |-> n]
FlushCall == [op |-> "flush", size |-> 0]

(* Two callers with calls of different sizes.                              *)
Two == (c1 :> <<Enq(2), Write(1)>>) @@ (c2 :> <<Enq(1), Enq(1), FlushCall>>)
TwoBad == {<<c1, 1, 2>>}

(* One caller that does not await.                                         *)
Burst == c1 :> <<Enq(2), Enq(2), Enq(1)>>

(* A write of two events, and one that waits behind it.                    *)
Writes == (c1 :> <<Write(2)>>) @@ (c2 :> <<Write(1)>>)
OneBad == {<<c1, 1, 1>>}
None == {}

(* The event of c1's second call does not fit with another.               *)
Sizes == [e \in Events |-> IF e[1] = c1 /\ e[2] = 2 THEN 3 ELSE 1]
=============================================================================

------------------------------ MODULE Channel ------------------------------
(* What a pipe promises: bytes come out once, in the order they went in.   *)
EXTENDS Integers, Sequences
VARIABLES queue, out
channelVars == <<queue, out>>
Init == queue = <<>> /\ out = <<>>
Put ==
  /\ Len(queue') > Len(queue)
  /\ SubSeq(queue', 1, Len(queue)) = queue
  /\ UNCHANGED out
Get ==
  \E n \in 1 .. Len(queue) :
    /\ queue' = SubSeq(queue, n + 1, Len(queue))
    /\ out' = out \o SubSeq(queue, 1, n)
Next == Put \/ Get
Spec == Init /\ [][Next]_channelVars
=============================================================================

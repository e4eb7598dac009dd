------------------------------ MODULE MCBlurPath ------------------------------
(***************************************************************************)
(* BlurPath with a camera, whose sender publishes a box, an empty frame    *)
(* and two boxes for three instants, and a channel without a worker.       *)
(***************************************************************************)
EXTENDS BlurPath

MCPublished ==
  {[ch |-> 0, ts |-> ts, boxes |-> <<{"face"}, {}, {"face", "plate"}>>[ts]] : ts \in 1..3} \union
  {[ch |-> 1, ts |-> 1, boxes |-> {"face"}]}

MCMaxAccepted == [c \in {0, 1} |-> IF c = 0 THEN 3 ELSE 1]

=============================================================================

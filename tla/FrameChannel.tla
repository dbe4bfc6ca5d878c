---------------------------- MODULE FrameChannel ----------------------------
(***************************************************************************)
(* What a network interface promises to the TCP/IP stack: frames come out  *)
(* in the order they came in, each at most once and unchanged; any of them *)
(* may be lost on the way.                                                 *)
(***************************************************************************)
EXTENDS Naturals, Sequences, SequencesExt

CONSTANT Frames    (* the frames on the wire *)

VARIABLES chan,    (* frames that came in and did not come out yet *)
          out      (* frames that came out *)

Init == chan = << >> /\ out = << >>

Arrive(f) == chan' = Append(chan, f) /\ UNCHANGED out

Deliver == /\ chan # << >>
           /\ chan' = Tail(chan)
           /\ out' = Append(out, Head(chan))

Lose(i) == chan' = RemoveAt(chan, i) /\ UNCHANGED out

Next == \/ \E f \in Frames : Arrive(f)
        \/ Deliver
        \/ \E i \in 1 .. Len(chan) : Lose(i)

Spec == Init /\ [][Next]_<<chan, out>>
=============================================================================

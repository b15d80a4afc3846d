---------------------------- MODULE LossyStream ----------------------------
(***************************************************************************)
(* What the pipeline from the ring buffer to the output promises: events   *)
(* are numbered as the kernel offers them; one may be refused, or lost or  *)
(* turned into several lines on the way, but what is delivered is in the   *)
(* order it was offered, and nothing is delivered that was not offered.    *)
(***************************************************************************)
EXTENDS Naturals, Sequences

CONSTANT MaxCopies  (* lines one event may become *)

VARIABLES
  offered,   (* events offered so far               *)
  transit,   (* events and lines on their way       *)
  delivered  (* lines delivered, by event, in order *)

streamVars == <<offered, transit, delivered>>

StreamInit ==
  /\ offered = 0
  /\ transit = <<>>
  /\ delivered = <<>>

(* A new event joins the end, or is refused. *)
Offer ==
  /\ offered' = offered + 1
  /\ transit' \in {transit, Append(transit, offered + 1)}
  /\ UNCHANGED delivered

(* The item at i is lost (n = 0), or becomes n lines in its place. *)
Rewrite(i, n) ==
  /\ transit' = SubSeq(transit, 1, i - 1) \o [j \in 1 .. n |-> transit[i]]
                  \o SubSeq(transit, i + 1, Len(transit))
  /\ UNCHANGED <<offered, delivered>>

Deliver ==
  /\ transit # <<>>
  /\ delivered' = Append(delivered, Head(transit))
  /\ transit' = Tail(transit)
  /\ UNCHANGED offered

StreamNext ==
  \/ Offer
  \/ \E i \in DOMAIN transit, n \in 0 .. MaxCopies : Rewrite(i, n)
  \/ Deliver

StreamSpec == StreamInit /\ [][StreamNext]_streamVars

=============================================================================

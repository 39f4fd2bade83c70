---------------------------- MODULE MigrationAbs ----------------------------
(***************************************************************************)
(* What live migration promises a client (spec sections 4.5 and 8): each   *)
(* request's output stream is 1, 2, 3, ... with no duplicate and no gap,   *)
(* every token of it comes from the instance that owns the request at that *)
(* moment, and ownership moves once, from the source to the destination.   *)
(***************************************************************************)
EXTENDS Naturals, Sequences

CONSTANTS Reqs, MaxTok

VARIABLES stream, owner

Init ==
  /\ stream = [r \in Reqs |-> <<>>]
  /\ owner = [r \in Reqs |-> "src"]

(* One engine step appends the next token to every request of a batch,    *)
(* tagged with the instance that owns it.                                  *)
Gen(B) ==
  /\ B # {}
  /\ \A r \in B : Len(stream[r]) < MaxTok
  /\ stream' = [r \in Reqs |-> IF r \in B
                               THEN Append(stream[r], <<Len(stream[r]) + 1, owner[r]>>)
                               ELSE stream[r]]
  /\ UNCHANGED owner

Move(r) ==
  /\ owner[r] = "src"
  /\ owner' = [owner EXCEPT ![r] = "dst"]
  /\ UNCHANGED stream

Next == (\E B \in SUBSET Reqs : Gen(B)) \/ (\E r \in Reqs : Move(r))

Spec == Init /\ [][Next]_<<stream, owner>>
=============================================================================

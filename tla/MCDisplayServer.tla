-------------------------- MODULE MCDisplayServer ---------------------------
(* A small instance of DisplayServer.                                      *)
EXTENDS DisplayServer, TLC

CONSTANTS k1, k2

TextBody == [kind |-> "text"]
DisplayBodies == {TextBody} \cup {BitmapOf(k) : k \in Keys}
                   \cup {DisplayOf(k) : k \in Keys}

(* The keys are interchangeable: nothing names one of them.                *)
Interchangeable == Permutations(Keys)
=============================================================================

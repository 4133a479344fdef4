---------------------------- MODULE MCHousehold ----------------------------
(* Bounded instance of Household. *)
EXTENDS Household
CONSTANTS a1, b1, cheap, green, s1, m1, w1, warm, cool

\* Two stories, told apart by what a step leaves: memory is reviewed beside the
\* plan worker, whose facts a review may change, or the tools are called.  No
\* step of the extraction worker is kept from either.
Told == proposals' # <<>> =>
          /\ cases' = <<>>
          /\ \A x \in Principals \X Keys :
                receipts'[x] # None => receipts'[x].request.tool = "plan"
MCSpec == Init /\ [][Next /\ Told]_vars /\ WF_protect(Extraction)
=============================================================================

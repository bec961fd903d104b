--------------------------- MODULE MCBasicRetriever ---------------------------
(* Three ids and three records, one of them below the threshold and one    *)
(* with another tag.  No part of a batch is a batch, and no part of a      *)
(* removal a removal, so that one that is half done is told from a whole.  *)
EXTENDS BasicRetriever

CONSTANTS TenantA, TenantB

MCIds == 1 .. 3
MCRecords == {[score |-> 2, tag |-> TenantA], [score |-> 1, tag |-> TenantB],
              [score |-> 0, tag |-> TenantA]}
\* Two vectors of increasing ids, valid or not, or the last id twice.
MCBatches ==
  {batch \in [1 .. 2 -> Entries] :
     batch[1].id < batch[2].id \/ {batch[1].id, batch[2].id} = {3}}
MCRemovals == {{1}, {2, 3}}
MCQueries == {[topK |-> 1, filter |-> TenantA], [topK |-> 2, filter |-> AnyTag]}
===============================================================================

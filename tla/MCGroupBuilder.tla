---------------------------- MODULE MCGroupBuilder ----------------------------
(* The builder of one group, a form at a time.  The long form: two producer *)
(* threads whose calls overlap as they may, with no build; and builds that  *)
(* overlap the calls of one of them, with one label set.  The wide form: a  *)
(* family, a plain counter group and two addresses for dynamic metrics; one *)
(* takes a second name, or another its address or its position, while the   *)
(* family has no member yet.                                                *)
EXTENDS LongBuilder, WideBuilder
CONSTANTS t1, t2, a, b
VARIABLE part
MCInit ==
    /\ part \in {"producers", "long", "wide"}
    /\ LBInit /\ WBInit
    /\ part = "long" \/ membership = [m \in Metrics |-> "All"]
MCNext ==
    /\ UNCHANGED part
    /\ \/ /\ part = "producers"
          /\ Next
          /\ UNCHANGED <<membership, builderVars, quiet, named, wbvars>>
       \/ /\ part = "long"
          /\ LBNext
          /\ generation' < MaxUid
          /\ op'[t2] = "idle"
          /\ \A s \in Slots : live'[s].labels # b
          /\ UNCHANGED wbvars
       \/ /\ part = "wide"
          /\ WBNext
          /\ names' < MaxNames \/ \A f \in Families : tableVersion'[f] = 0
          /\ UNCHANGED allVars
MCSpec == MCInit /\ [][MCNext]_<<part, allVars, wbvars>>
=============================================================================

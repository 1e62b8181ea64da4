----------------------------- MODULE MCUniqueIds -----------------------------
(***************************************************************************)
(* Two datasets that differ in case only, and certificates of which two    *)
(* share their common name, one replaces another under the same name and   *)
(* one is named as the others' common name.                                *)
(***************************************************************************)
EXTENDS UniqueIds

Datasets == {[kind |-> "plain", name |-> r, common |-> NoCommon] : r \in {"Data", "data"}}

Certificates ==
  {[kind |-> "cert", name |-> "old", common |-> "nas"],
   [kind |-> "cert", name |-> "new", common |-> "nas"],
   [kind |-> "cert", name |-> "old", common |-> "other"],
   [kind |-> "cert", name |-> "nas", common |-> "other"]}

AllObjects == Datasets \cup Certificates
AllRefs == {"Data", "data", "old", "new", "nas", "other"}

Lowercase == [r \in AllRefs |-> IF r = "Data" THEN "data" ELSE r]
=============================================================================

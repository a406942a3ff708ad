------------------------------ MODULE MCEpubSplit ------------------------------
(* Spines of up to four documents whose rendered sizes have little to do with the  *)
(* estimates, resources that leave room for several documents or for none, and a  *)
(* process that dies once.                                                        *)
EXTENDS EpubSplit
================================================================================

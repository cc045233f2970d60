------------------------------ MODULE Backends ------------------------------
(* How the managers of the engines choose one: SttManager, TtsManager and    *)
(* LipSyncManager take what the configuration requests if it says that it is *)
(* available, or else the first of their registry that says so.              *)
EXTENDS Sequences, SequencesExt

NoBackend == "none"

\* The place in order of the first that says it is available; 0 when none does.
FirstUsable(order, available) ==
  SelectInSeq(order, LAMBDA backend : backend \in available)

Select(requested, order, available) ==
  CASE requested \in available -> requested
    [] requested \notin available /\ FirstUsable(order, available) # 0 ->
         order[FirstUsable(order, available)]
    [] OTHER -> NoBackend
=============================================================================

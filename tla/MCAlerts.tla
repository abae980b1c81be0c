------------------------------- MODULE MCAlerts -------------------------------
(* Instances of Alerts for TLC. *)
EXTENDS Alerts, FiniteSets

CONSTANT Focus   \* how many keys misbehave, or are silenced or acknowledged, in one behaviour

VARIABLE focus

Others == Keys \ focus

FocusInit == Init /\ focus \in {K \in SUBSET Keys : Cardinality(K) = Focus}

FocusNext ==
  /\ Next
  /\ \A k \in Others : host'[k] = host[k] /\ acked'[k] = acked[k]
  /\ silenced' \cap Others = {}
  /\ \A kind \in Kinds : KeysOf(kind) \cap focus = {} => enabled'[kind] = enabled[kind]
  /\ Units \cap focus = {} => lister' = lister
  /\ UNCHANGED focus

FocusSpec == FocusInit /\ [][FocusNext]_<<vars, focus>> /\ WF_<<vars, focus>>(Evaluate /\ UNCHANGED focus)
=============================================================================

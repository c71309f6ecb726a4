----------------------------- MODULE Negotiation -----------------------------
(***************************************************************************)
(* Capability negotiation v1: negotiate_capabilities_v1 derives a document *)
(* from an ordered list of probe receipts, the document travels as JSON,   *)
(* and CapabilityNegotiationV1::validate decides whether the receiver may  *)
(* act on what arrived, which may be any document of the right shape. The  *)
(* two loops are steps of this specification, one candidate at a time.     *)
(***************************************************************************)
EXTENDS Integers, Sequences

CONSTANTS Receipts,         \* probe receipts: see Receipt
          Identities,       \* capability and adapter a receipt or selection names
          MaxCandidates     \* bound on the number of candidates

Receipt == [identity : Identities,
            availability : {"available", "unavailable", "unknown"},
            conformance : {"conformant", "nonconformant", "not_applicable", "inconclusive"},
            readiness : {"not_required", "ready", "unknown"},
            valid : BOOLEAN]

ASSUME ReceiptAssumption == Receipts \subseteq Receipt
ASSUME BoundAssumption == MaxCandidates \in Nat

Candidates == [preference : Nat, disposition : {"eligible", "ineligible"}, receipt : Receipts]

(* NegotiationSelectionV1: Selected with its duplicated identity, or       *)
(* NoEligibleCandidate.                                                    *)
Selected(p, id) == [selected |-> TRUE, preference |-> p, identity |-> id]
Absent == [selected |-> FALSE]
Selections(n) == {Absent} \cup {Selected(p, id) : p \in 0..n, id \in Identities}

(* Documents that deserialize: derived fields may say anything. *)
Documents ==
    UNION {[v1 : BOOLEAN,
            candidates : [1..n -> [preference : 0..n, disposition : {"eligible", "ineligible"},
                                   receipt : Receipts]],
            selection : Selections(n)] : n \in 0..MaxCandidates}

VARIABLES
    receipts,   \* the ordered evidence given to negotiate_capabilities_v1
    doc,        \* the document being built, then the one that arrived
    intact,     \* whether the document arrived as it was sent
    phase,      \* negotiating, sent, validating, or the verdict
    index,      \* the candidate that validate looks at next
    first       \* position of the first eligible candidate seen, 0 for none

vars == <<receipts, doc, intact, phase, index, first>>

Verdicts == {"accepted", "UnsupportedSchema", "NoncanonicalPreference", "InvalidReceipt",
             "DispositionMismatch", "SelectionMismatch", "SelectedIdentityMismatch"}

TypeOK ==
    /\ receipts \in Seq(Receipts)
    /\ doc.v1 \in BOOLEAN
    /\ doc.candidates \in Seq(Candidates)
    /\ doc.selection \in {Absent} \cup
         [selected : {TRUE}, preference : Nat, identity : Identities]
    /\ intact \in BOOLEAN
    /\ phase \in {"negotiating", "sent", "validating"} \cup Verdicts
    /\ index \in Nat \ {0}
    /\ first \in Nat

-----------------------------------------------------------------------------
(* receipt_is_eligible *)
Eligible(r) ==
    /\ r.availability = "available"
    /\ r.conformance = "conformant"
    /\ r.readiness \in {"not_required", "ready"}

Disposition(r) == IF Eligible(r) THEN "eligible" ELSE "ineligible"

Init ==
    /\ receipts \in UNION {[1..n -> Receipts] : n \in 0..MaxCandidates}
    /\ doc = [v1 |-> TRUE, candidates |-> <<>>, selection |-> Absent]
    /\ intact = TRUE
    /\ phase = "negotiating"
    /\ index = 1
    /\ first = 0

(* Fault: a later eligible candidate replaces the selection. *)
NegotiateLast ==
    LET k == Len(doc.candidates) + 1
        r == receipts[k]
    IN
    /\ phase = "negotiating"
    /\ k <= Len(receipts)
    /\ doc' = [doc EXCEPT
                 !.candidates = Append(@, [preference |-> k - 1,
                                           disposition |-> Disposition(r), receipt |-> r]),
                 !.selection = IF Eligible(r) THEN Selected(k - 1, r.identity) ELSE @]
    /\ UNCHANGED <<receipts, intact, phase, index, first>>

(* One turn of the map in negotiate_capabilities_v1. *)
NegotiateCandidate ==
    LET k == Len(doc.candidates) + 1
        r == receipts[k]
    IN
    /\ phase = "negotiating"
    /\ k <= Len(receipts)
    /\ doc' = [doc EXCEPT
                 !.candidates = Append(@, [preference |-> k - 1,
                                           disposition |-> Disposition(r), receipt |-> r]),
                 !.selection = IF Eligible(r) /\ ~@.selected
                               THEN Selected(k - 1, r.identity) ELSE @]
    /\ UNCHANGED <<receipts, intact, phase, index, first>>

Send ==
    /\ phase = "negotiating"
    /\ Len(doc.candidates) = Len(receipts)
    /\ phase' = "sent"
    /\ UNCHANGED <<receipts, doc, intact, index, first>>

(* What arrives is what was sent, or another document; validate begins     *)
(* with the schema identity.                                               *)
Receive ==
    /\ phase = "sent"
    /\ \/ UNCHANGED <<doc, intact>>
       \/ doc' \in Documents /\ intact' = FALSE
    /\ phase' = IF doc'.v1 THEN "validating" ELSE "UnsupportedSchema"
    /\ UNCHANGED <<receipts, index, first>>

(* Fault: the disposition is taken from the document. *)
ValidateCandidateTrusting ==
    LET c == doc.candidates[index] IN
    /\ phase = "validating"
    /\ index <= Len(doc.candidates)
    /\ IF c.preference # index - 1 \/ ~c.receipt.valid
       THEN phase' = "InvalidReceipt" /\ UNCHANGED <<index, first>>
       ELSE /\ first' = IF first = 0 /\ c.disposition = "eligible" THEN index ELSE first
            /\ index' = index + 1
            /\ UNCHANGED phase
    /\ UNCHANGED <<receipts, doc, intact>>

(* One turn of the loop of validate, its checks in order. *)
ValidateCandidate ==
    LET c == doc.candidates[index] IN
    /\ phase = "validating"
    /\ index <= Len(doc.candidates)
    /\ \/ /\ c.preference # index - 1
          /\ phase' = "NoncanonicalPreference"
          /\ UNCHANGED <<index, first>>
       \/ /\ c.preference = index - 1 /\ ~c.receipt.valid
          /\ phase' = "InvalidReceipt"
          /\ UNCHANGED <<index, first>>
       \/ /\ c.preference = index - 1 /\ c.receipt.valid
          /\ c.disposition # Disposition(c.receipt)
          /\ phase' = "DispositionMismatch"
          /\ UNCHANGED <<index, first>>
       \/ /\ c.preference = index - 1 /\ c.receipt.valid
          /\ c.disposition = Disposition(c.receipt)
          /\ first' = IF first = 0 /\ c.disposition = "eligible" THEN index ELSE first
          /\ index' = index + 1
          /\ UNCHANGED phase
    /\ UNCHANGED <<receipts, doc, intact>>

(* The match on the selection and the first eligible candidate. *)
SelectionVerdict ==
    LET s == doc.selection IN
    CASE first = 0 /\ ~s.selected -> "accepted"
      [] /\ first > 0
         /\ s.selected
         /\ s.preference = doc.candidates[first].preference ->
             IF s.identity = doc.candidates[first].receipt.identity
             THEN "accepted" ELSE "SelectedIdentityMismatch"
      [] OTHER -> "SelectionMismatch"

ValidateSelection ==
    /\ phase = "validating"
    /\ index > Len(doc.candidates)
    /\ phase' = SelectionVerdict
    /\ UNCHANGED <<receipts, doc, intact, index, first>>

Next ==
    NegotiateCandidate \/ Send \/ Receive \/ ValidateCandidate \/ ValidateSelection

Spec == Init /\ [][Next]_vars

-----------------------------------------------------------------------------
(* Properties.                                                             *)

(* The documented rule, without loops: a receipt is eligible that states   *)
(* all three facts, candidates keep their order, each disposition follows  *)
(* from its receipt, and the selection names the first eligible receipt or *)
(* says there is none.                                                     *)
Established(r) ==
    /\ <<r.availability, r.conformance>> = <<"available", "conformant">>
    /\ r.readiness = "ready" \/ r.readiness = "not_required"

IsFirstEligible(cs, k) ==
    /\ k \in DOMAIN cs
    /\ Established(cs[k].receipt)
    /\ \A j \in 1..(k - 1) : ~Established(cs[j].receipt)

FollowsFromReceipts(d) ==
    /\ \A k \in DOMAIN d.candidates :
         /\ d.candidates[k].preference = k - 1
         /\ d.candidates[k].disposition = "eligible" <=> Established(d.candidates[k].receipt)
    /\ \/ /\ d.selection = Absent
          /\ \A k \in DOMAIN d.candidates : ~Established(d.candidates[k].receipt)
       \/ \E k \in DOMAIN d.candidates :
            /\ IsFirstEligible(d.candidates, k)
            /\ d.selection = Selected(k - 1, d.candidates[k].receipt.identity)

(* validate accepts only documents whose derived fields follow from valid  *)
(* receipts: no document, forged or damaged, makes a consumer select       *)
(* anything but the first candidate that was shown to be eligible.         *)
AcceptedFollowsFromReceipts ==
    phase = "accepted" =>
        /\ FollowsFromReceipts(doc)
        /\ \A k \in DOMAIN doc.candidates : doc.candidates[k].receipt.valid

(* What negotiate_capabilities_v1 derives from valid receipts keeps them   *)
(* all, in order, and validate does not reject it.                         *)
NegotiatedIsNeverRejected ==
    (intact /\ \A k \in DOMAIN receipts : receipts[k].valid) =>
        /\ phase \in {"negotiating", "sent", "validating", "accepted"}
        /\ phase # "negotiating" =>
             /\ Len(doc.candidates) = Len(receipts)
             /\ \A k \in DOMAIN receipts : doc.candidates[k].receipt = receipts[k]
=============================================================================

------------------------- MODULE NegotiationProofs --------------------------
(***************************************************************************)
(* Proofs about Negotiation for any receipts and any number of candidates. *)
(* The two loops are related to the documented rule by an invariant over   *)
(* the part of the document that each has seen.                            *)
(***************************************************************************)
EXTENDS Negotiation, TLAPS

(* The code's test is the documented rule. *)
LEMMA EligibleIsEstablished == \A r : Eligible(r) <=> Established(r)
  BY DEF Eligible, Established

(* A selection has its type, and only Absent selects nothing. *)
LEMMA SelectionTyped ==
    ASSUME NEW p \in Nat, NEW id \in Identities
    PROVE  Selected(p, id) \in [selected : {TRUE}, preference : Nat, identity : Identities]
BY DEF Selected

LEMMA AbsentSelectsNothing == Absent.selected = FALSE
BY DEF Absent

(* Every document of the right shape is well typed. *)
LEMMA DocumentsTyped ==
    ASSUME NEW d \in Documents
    PROVE  /\ d.v1 \in BOOLEAN
           /\ d.candidates \in Seq(Candidates)
           /\ d.selection \in {Absent} \cup
                [selected : {TRUE}, preference : Nat, identity : Identities]
<1>1. PICK n \in 0..MaxCandidates :
        d \in [v1 : BOOLEAN,
               candidates : [1..n -> [preference : 0..n, disposition : {"eligible", "ineligible"},
                                      receipt : Receipts]],
               selection : Selections(n)]
  BY DEF Documents
<1>2. n \in Nat
  BY <1>1, BoundAssumption
<1>3. d.candidates \in [1..n -> Candidates]
  BY <1>1, <1>2 DEF Candidates
<1>4. d.candidates \in Seq(Candidates)
  BY <1>2, <1>3
<1>5. d.selection \in {Absent} \cup [selected : {TRUE}, preference : Nat, identity : Identities]
  <2>1. CASE d.selection = Absent
    BY <2>1
  <2>2. CASE d.selection # Absent
    <3>1. PICK p \in 0..n, id \in Identities : d.selection = Selected(p, id)
      BY <1>1, <2>2 DEF Selections
    <3>2. p \in Nat
      BY <1>2, <3>1
    <3>3. QED
      BY <3>1, <3>2, SelectionTyped
  <2>3. QED
    BY <2>1, <2>2
<1>6. QED
  BY <1>1, <1>4, <1>5

(* Both loops keep the types. *)
LEMMA NegotiationTypeStep == ASSUME TypeOK, [Next]_vars PROVE TypeOK'
<1>1. CASE NegotiateCandidate
  <2> DEFINE k == Len(doc.candidates) + 1
             r == receipts[k]
             c == [preference |-> k - 1, disposition |-> Disposition(r), receipt |-> r]
  <2>1. k \in Nat /\ k >= 1 /\ k <= Len(receipts)
    BY <1>1 DEF TypeOK, NegotiateCandidate
  <2>2. r \in Receipts
    BY <2>1 DEF TypeOK
  <2>3. c \in Candidates
    BY <2>1, <2>2 DEF Candidates, Disposition
  <2>4. doc'.candidates = Append(doc.candidates, c) /\ doc'.v1 = doc.v1
    BY <1>1 DEF NegotiateCandidate
  <2>5. doc'.candidates \in Seq(Candidates)
    BY <2>3, <2>4 DEF TypeOK
  <2>6. doc'.selection \in {doc.selection, Selected(k - 1, r.identity)}
    BY <1>1 DEF NegotiateCandidate
  <2>7. r.identity \in Identities
    BY <2>2, ReceiptAssumption DEF Receipt
  <2>8. doc'.selection \in {Absent} \cup
          [selected : {TRUE}, preference : Nat, identity : Identities]
    <3>1. k - 1 \in Nat
      BY <2>1
    <3>2. Selected(k - 1, r.identity) \in
            [selected : {TRUE}, preference : Nat, identity : Identities]
      BY <2>7, <3>1, SelectionTyped
    <3>3. doc.selection \in {Absent} \cup
            [selected : {TRUE}, preference : Nat, identity : Identities]
      BY DEF TypeOK
    <3>4. QED
      BY <2>6, <3>2, <3>3
  <2>9. QED
    BY <1>1, <2>4, <2>5, <2>8 DEF TypeOK, NegotiateCandidate
<1>2. CASE Send
  BY <1>2 DEF TypeOK, Send
<1>3. CASE Receive
  BY <1>3, DocumentsTyped DEF TypeOK, Receive, Verdicts
<1>4. CASE ValidateCandidate
  <2>1. phase' \in {"validating"} \cup Verdicts
    BY <1>4 DEF ValidateCandidate, Verdicts
  <2>2. index' \in Nat \ {0} /\ first' \in Nat
    BY <1>4 DEF TypeOK, ValidateCandidate
  <2>3. QED
    BY <1>4, <2>1, <2>2 DEF TypeOK, ValidateCandidate
<1>5. CASE ValidateSelection
  <2>1. SelectionVerdict \in Verdicts
    BY DEF SelectionVerdict, Verdicts
  <2>2. QED
    BY <1>5, <2>1 DEF TypeOK, ValidateSelection
<1>6. CASE UNCHANGED vars
  BY <1>6 DEF TypeOK, vars
<1>7. QED
  BY <1>1, <1>2, <1>3, <1>4, <1>5, <1>6 DEF Next

(* Every reachable state is well typed. *)
THEOREM NegotiationTypeCorrect == Spec => []TypeOK
<1>1. Init => TypeOK
  <2> SUFFICES ASSUME Init PROVE TypeOK
    OBVIOUS
  <2>1. receipts \in Seq(Receipts)
    BY BoundAssumption DEF Init
  <2>2. doc.v1 = TRUE /\ doc.candidates = <<>> /\ doc.selection = Absent
    BY DEF Init
  <2>3. QED
    BY <2>1, <2>2 DEF Init, TypeOK
<1>2. QED
  BY <1>1, NegotiationTypeStep, PTL DEF Spec

-----------------------------------------------------------------------------
(* What validate has established when it is about to look at `index`. *)
Validated ==
    /\ index <= Len(doc.candidates) + 1
    /\ \A k \in 1..(index - 1) :
         /\ doc.candidates[k].preference = k - 1
         /\ doc.candidates[k].receipt.valid
         /\ doc.candidates[k].disposition = Disposition(doc.candidates[k].receipt)
    /\ first = 0 => \A k \in 1..(index - 1) : ~Eligible(doc.candidates[k].receipt)
    /\ first # 0 =>
         /\ first \in 1..(index - 1)
         /\ Eligible(doc.candidates[first].receipt)
         /\ \A k \in 1..(first - 1) : ~Eligible(doc.candidates[k].receipt)

ValidationInv ==
    /\ phase \in {"negotiating", "sent"} => index = 1 /\ first = 0
    /\ phase = "validating" => Validated
    /\ AcceptedFollowsFromReceipts

(* The last candidate seen: validate accepts only what follows. *)
LEMMA SelectionStep ==
    ASSUME TypeOK, Validated, index > Len(doc.candidates), SelectionVerdict = "accepted"
    PROVE  /\ FollowsFromReceipts(doc)
           /\ \A k \in DOMAIN doc.candidates : doc.candidates[k].receipt.valid
<1> DEFINE cs == doc.candidates
           n == Len(doc.candidates)
<1>1. n \in Nat /\ DOMAIN cs = 1..n /\ index - 1 = n
  <2>1. n \in Nat /\ DOMAIN cs = 1..n
    BY DEF TypeOK
  <2>2. index \in Nat /\ index <= n + 1 /\ index > n
    BY DEF TypeOK, Validated
  <2>3. QED
    BY <2>1, <2>2
<1>2. \A k \in DOMAIN cs : /\ cs[k].preference = k - 1
                           /\ cs[k].receipt.valid
                           /\ cs[k].disposition = "eligible" <=> Established(cs[k].receipt)
  BY <1>1, EligibleIsEstablished DEF Validated, Disposition
<1>3. CASE first = 0
  <2>1. ~doc.selection.selected
    BY <1>3 DEF SelectionVerdict
  <2>2. doc.selection = Absent
    BY <2>1 DEF TypeOK
  <2>3. QED
    BY <1>1, <1>2, <1>3, <2>2, EligibleIsEstablished DEF FollowsFromReceipts, Validated
<1>4. CASE first # 0
  <2>1. first \in DOMAIN cs /\ first > 0
    BY <1>1, <1>4 DEF Validated, TypeOK
  <2>2. IsFirstEligible(cs, first)
    BY <1>4, <2>1, EligibleIsEstablished DEF Validated, IsFirstEligible
  <2>3. /\ doc.selection.selected
        /\ doc.selection.preference = cs[first].preference
        /\ doc.selection.identity = cs[first].receipt.identity
    BY <1>4, <2>1 DEF SelectionVerdict
  <2>4. doc.selection = Selected(first - 1, cs[first].receipt.identity)
    <3>1. doc.selection \in [selected : {TRUE}, preference : Nat, identity : Identities]
      <4>1. doc.selection # Absent
        BY <2>3, AbsentSelectsNothing
      <4>2. QED
        BY <4>1 DEF TypeOK
    <3>2. doc.selection.preference = first - 1
      BY <1>2, <2>1, <2>3
    <3>3. QED
      BY <2>3, <3>1, <3>2 DEF Selected
  <2>5. QED
    BY <1>2, <2>1, <2>2, <2>4 DEF FollowsFromReceipts
<1>5. QED
  BY <1>3, <1>4

(* The loop of validate keeps what it has established. *)
LEMMA ValidationStep ==
    ASSUME TypeOK, ValidationInv, [Next]_vars PROVE ValidationInv'
<1>1. CASE NegotiateCandidate
  BY <1>1 DEF NegotiateCandidate, ValidationInv, AcceptedFollowsFromReceipts
<1>2. CASE Send
  BY <1>2 DEF Send, ValidationInv, AcceptedFollowsFromReceipts
<1>3. CASE Receive
  <2>1. index' = 1 /\ first' = 0 /\ phase' \in {"validating", "UnsupportedSchema"}
    BY <1>3 DEF Receive, ValidationInv
  <2>2. Len(doc'.candidates) \in Nat
    BY NegotiationTypeStep DEF TypeOK
  <2>3. Validated'
    BY <2>1, <2>2 DEF Validated
  <2>4. QED
    BY <2>1, <2>3 DEF ValidationInv, AcceptedFollowsFromReceipts
<1>4. CASE ValidateCandidate
  <2> DEFINE c == doc.candidates[index]
  <2>1. Validated /\ index <= Len(doc.candidates) /\ UNCHANGED doc /\ phase' # "accepted"
    BY <1>4 DEF ValidateCandidate, ValidationInv
  <2>2. phase' \notin {"negotiating", "sent"}
    BY <1>4 DEF ValidateCandidate
  <2>3. ASSUME phase' = "validating" PROVE Validated'
    <3>1. /\ c.preference = index - 1 /\ c.receipt.valid /\ c.disposition = Disposition(c.receipt)
          /\ index' = index + 1
          /\ first' = IF first = 0 /\ c.disposition = "eligible" THEN index ELSE first
      BY <1>4, <2>3 DEF ValidateCandidate
    <3>2. index \in Nat \ {0} /\ first \in Nat /\ Len(doc.candidates) \in Nat
      BY DEF TypeOK
    <3>3. \A k \in 1..index : k = index \/ k \in 1..(index - 1)
      BY <3>2
    <3>4. c.disposition = "eligible" <=> Eligible(c.receipt)
      BY <3>1 DEF Disposition
    <3>5. CASE first = 0 /\ c.disposition = "eligible"
      <4>1. first' = index /\ index' - 1 = index /\ first' # 0
        BY <3>1, <3>2, <3>5
      <4>2. \A k \in 1..(index - 1) : /\ doc.candidates[k].preference = k - 1
                                      /\ doc.candidates[k].receipt.valid
                                      /\ doc.candidates[k].disposition
                                           = Disposition(doc.candidates[k].receipt)
                                      /\ ~Eligible(doc.candidates[k].receipt)
        BY <2>1, <3>5 DEF Validated
      <4>3. index' <= Len(doc'.candidates) + 1
        BY <2>1, <3>1, <3>2
      <4>4. index \in 1..index /\ Eligible(c.receipt)
        BY <3>2, <3>4, <3>5
      <4>5. QED
        BY <2>1, <3>1, <3>3, <4>1, <4>2, <4>3, <4>4 DEF Validated
    <3>6. CASE first = 0 /\ c.disposition # "eligible"
      BY <2>1, <3>1, <3>2, <3>3, <3>4, <3>6 DEF Validated
    <3>7. CASE first # 0
      BY <2>1, <3>1, <3>2, <3>3, <3>7 DEF Validated
    <3>8. QED
      BY <3>5, <3>6, <3>7
  <2>4. QED
    BY <2>1, <2>2, <2>3 DEF ValidationInv, AcceptedFollowsFromReceipts
<1>5. CASE ValidateSelection
  <2>1. Validated /\ index > Len(doc.candidates) /\ phase' = SelectionVerdict /\ UNCHANGED doc
    BY <1>5 DEF ValidateSelection, ValidationInv
  <2>2. phase' \notin {"negotiating", "sent", "validating"}
    BY <2>1 DEF SelectionVerdict
  <2>3. AcceptedFollowsFromReceipts'
    BY <2>1, SelectionStep DEF AcceptedFollowsFromReceipts
  <2>4. QED
    BY <2>2, <2>3 DEF ValidationInv
<1>6. CASE UNCHANGED vars
  BY <1>6 DEF vars, ValidationInv, Validated, AcceptedFollowsFromReceipts
<1>7. QED
  BY <1>1, <1>2, <1>3, <1>4, <1>5, <1>6 DEF Next

(* Whatever document arrives, validate accepts it only if disposition and  *)
(* selection are the ones the documented rule derives from its receipts.   *)
THEOREM ValidateSound == Spec => []AcceptedFollowsFromReceipts
<1>1. Init => ValidationInv
  BY DEF Init, ValidationInv, AcceptedFollowsFromReceipts
<1>2. TypeOK /\ ValidationInv /\ [Next]_vars => ValidationInv'
  BY ValidationStep
<1>3. ValidationInv => AcceptedFollowsFromReceipts
  BY DEF ValidationInv
<1>4. QED
  BY <1>1, <1>2, <1>3, NegotiationTypeCorrect, PTL DEF Spec

-----------------------------------------------------------------------------
(* What negotiate_capabilities_v1 has derived from the receipts that it    *)
(* has looked at.                                                          *)
IsFirstAmong(f, n) ==
    /\ f \in 1..n /\ Eligible(receipts[f])
    /\ \A k \in 1..(f - 1) : ~Eligible(receipts[k])

Derived(n) ==
    /\ \A k \in 1..n :
         /\ doc.candidates[k].preference = k - 1
         /\ doc.candidates[k].disposition = Disposition(receipts[k])
         /\ doc.candidates[k].receipt = receipts[k]
    /\ \/ doc.selection = Absent /\ \A k \in 1..n : ~Eligible(receipts[k])
       \/ \E f \in 1..n : /\ IsFirstAmong(f, n)
                          /\ doc.selection = Selected(f - 1, receipts[f].identity)

AllValid == \A k \in DOMAIN receipts : receipts[k].valid

NegotiatedInv ==
    intact =>
        /\ doc.v1 /\ Len(doc.candidates) <= Len(receipts)
        /\ Derived(Len(doc.candidates))
        /\ phase # "negotiating" => Len(doc.candidates) = Len(receipts)
        /\ AllValid => phase \in {"negotiating", "sent", "validating", "accepted"}

(* One turn of the map extends what has been derived. *)
LEMMA DerivedStep ==
    ASSUME TypeOK, NegotiatedInv, intact, NegotiateCandidate
    PROVE  /\ Len(doc'.candidates) = Len(doc.candidates) + 1
           /\ Derived(Len(doc.candidates))'
           /\ doc'.v1
<1> DEFINE n == Len(doc.candidates)
           r == receipts[n + 1]
           c == [preference |-> n, disposition |-> Disposition(r), receipt |-> r]
<1>1. /\ doc.candidates \in Seq(Candidates) /\ n \in Nat /\ n + 1 <= Len(receipts)
      /\ UNCHANGED receipts
      /\ doc'.candidates = Append(doc.candidates, c) /\ doc'.v1 = doc.v1
      /\ doc'.selection = IF Eligible(r) /\ ~doc.selection.selected
                          THEN Selected(n, r.identity) ELSE doc.selection
  BY DEF TypeOK, NegotiateCandidate
<1>2. /\ Len(doc'.candidates) = n + 1 /\ doc'.candidates[n + 1] = c
      /\ \A k \in 1..n : doc'.candidates[k] = doc.candidates[k]
  BY <1>1
<1>3. Derived(n) /\ doc.v1
  BY DEF NegotiatedInv
<1>4. \A k \in 1..(n + 1) : k \in 1..n \/ k = n + 1
  BY <1>1
<1>5. \A k \in 1..(n + 1) :
         /\ doc'.candidates[k].preference = k - 1
         /\ doc'.candidates[k].disposition = Disposition(receipts[k])
         /\ doc'.candidates[k].receipt = receipts[k]
  BY <1>1, <1>2, <1>3, <1>4 DEF Derived
<1>6. \/ doc'.selection = Absent /\ \A k \in 1..(n + 1) : ~Eligible(receipts[k])
      \/ \E f \in 1..(n + 1) : /\ IsFirstAmong(f, n + 1)
                               /\ doc'.selection = Selected(f - 1, receipts[f].identity)
  <2>1. CASE doc.selection = Absent /\ \A k \in 1..n : ~Eligible(receipts[k])
    <3>1. doc.selection.selected = FALSE
      BY <2>1, AbsentSelectsNothing
    <3>2. CASE Eligible(r)
      <4>1. IsFirstAmong(n + 1, n + 1) /\ n + 1 \in 1..(n + 1) /\ (n + 1) - 1 = n
        BY <1>1, <2>1, <3>2 DEF IsFirstAmong
      <4>2. doc'.selection = Selected((n + 1) - 1, receipts[n + 1].identity)
        BY <1>1, <3>1, <3>2, <4>1
      <4>3. QED
        BY <4>1, <4>2
    <3>3. CASE ~Eligible(r)
      BY <1>1, <1>4, <2>1, <3>3
    <3>4. QED
      BY <3>2, <3>3
  <2>2. ASSUME NEW f \in 1..n, IsFirstAmong(f, n),
               doc.selection = Selected(f - 1, receipts[f].identity)
        PROVE  /\ f \in 1..(n + 1) /\ IsFirstAmong(f, n + 1)
               /\ doc'.selection = Selected(f - 1, receipts[f].identity)
    <3>1. doc.selection.selected = TRUE
      BY <2>2 DEF Selected
    <3>2. QED
      BY <1>1, <2>2, <3>1 DEF IsFirstAmong
  <2>3. QED
    BY <1>3, <2>1, <2>2 DEF Derived
<1>7. Derived(n)'
  BY <1>1, <1>2, <1>5, <1>6 DEF Derived, IsFirstAmong
<1>8. QED
  BY <1>1, <1>2, <1>3, <1>7

(* validate finds the selection that negotiate made. *)
LEMMA VerdictOfNegotiated ==
    ASSUME TypeOK, Validated, NegotiatedInv, intact, phase = "validating",
           index > Len(doc.candidates)
    PROVE  SelectionVerdict = "accepted"
<1> DEFINE n == Len(doc.candidates)
<1>1. n \in Nat /\ index - 1 = n /\ first \in Nat
  <2>1. n \in Nat /\ first \in Nat
    BY DEF TypeOK
  <2>2. index \in Nat /\ index <= n + 1 /\ index > n
    BY DEF TypeOK, Validated
  <2>3. QED
    BY <2>1, <2>2
<1>2. \A k \in 1..n : /\ doc.candidates[k].receipt = receipts[k]
                      /\ doc.candidates[k].preference = k - 1
  BY DEF NegotiatedInv, Derived
<1>3. CASE doc.selection = Absent /\ \A k \in 1..n : ~Eligible(receipts[k])
  <2>1. first = 0
    BY <1>1, <1>2, <1>3 DEF Validated
  <2>2. ~doc.selection.selected
    BY <1>3, AbsentSelectsNothing
  <2>3. QED
    BY <2>1, <2>2 DEF SelectionVerdict
<1>4. ASSUME NEW f \in 1..n, IsFirstAmong(f, n),
             doc.selection = Selected(f - 1, receipts[f].identity)
      PROVE  SelectionVerdict = "accepted"
  <2>1. /\ doc.selection.selected /\ doc.selection.preference = f - 1
        /\ doc.selection.identity = receipts[f].identity
    BY <1>4 DEF Selected
  <2>2. first # 0
    BY <1>1, <1>2, <1>4 DEF Validated, IsFirstAmong
  <2>3. /\ first \in 1..n /\ Eligible(receipts[first])
        /\ \A k \in 1..(first - 1) : ~Eligible(receipts[k])
    <3>1. /\ first \in 1..n /\ Eligible(doc.candidates[first].receipt)
          /\ \A k \in 1..(first - 1) : ~Eligible(doc.candidates[k].receipt)
      BY <1>1, <2>2 DEF Validated
    <3>2. \A k \in 1..(first - 1) : k \in 1..n
      BY <1>1, <3>1
    <3>3. QED
      BY <1>2, <3>1, <3>2
  <2>4. first = f
    <3>1. ~(f < first) /\ ~(first < f)
      BY <1>1, <1>4, <2>3 DEF IsFirstAmong
    <3>2. QED
      BY <1>1, <3>1
  <2>5. first > 0 /\ doc.candidates[first].preference = f - 1
        /\ doc.candidates[first].receipt.identity = receipts[f].identity
    BY <1>1, <1>2, <2>3, <2>4
  <2>6. QED
    BY <2>1, <2>5 DEF SelectionVerdict
<1>5. QED
  BY <1>3, <1>4 DEF NegotiatedInv, Derived

(* Both loops over a document that arrives as it was sent. *)
LEMMA NegotiatedStep ==
    ASSUME TypeOK, ValidationInv, NegotiatedInv, [Next]_vars PROVE NegotiatedInv'
<1>1. CASE NegotiateCandidate
  <2>1. /\ UNCHANGED <<receipts, intact, phase>> /\ phase = "negotiating"
        /\ Len(doc.candidates) + 1 <= Len(receipts)
    BY <1>1 DEF NegotiateCandidate
  <2>2. QED
    BY <1>1, <2>1, DerivedStep DEF NegotiatedInv
<1>2. CASE Send
  BY <1>2 DEF Send, NegotiatedInv, Derived, IsFirstAmong, AllValid
<1>3. CASE Receive
  BY <1>3 DEF Receive, NegotiatedInv, Derived, IsFirstAmong, AllValid
<1>4. CASE ValidateCandidate
  <2>1. UNCHANGED <<receipts, doc, intact>> /\ phase = "validating"
        /\ index <= Len(doc.candidates) /\ index \in Nat \ {0}
    BY <1>4 DEF ValidateCandidate, TypeOK
  <2>2. ASSUME intact, AllValid PROVE phase' = "validating"
    <3>1. /\ Len(doc.candidates) <= Len(receipts) /\ Derived(Len(doc.candidates))
          /\ Len(doc.candidates) \in Nat /\ Len(receipts) \in Nat
          /\ DOMAIN receipts = 1..Len(receipts)
      BY <2>2 DEF NegotiatedInv, TypeOK
    <3>2. index \in 1..Len(doc.candidates) /\ index \in DOMAIN receipts
      BY <2>1, <3>1
    <3>3. /\ doc.candidates[index].preference = index - 1
          /\ doc.candidates[index].receipt = receipts[index]
          /\ doc.candidates[index].disposition = Disposition(receipts[index])
          /\ receipts[index].valid
      BY <2>2, <3>1, <3>2 DEF Derived, AllValid
    <3>4. QED
      BY <1>4, <3>3 DEF ValidateCandidate
  <2>3. QED
    BY <2>1, <2>2 DEF NegotiatedInv, Derived, IsFirstAmong, AllValid
<1>5. CASE ValidateSelection
  <2>1. /\ UNCHANGED <<receipts, doc, intact>> /\ phase = "validating"
        /\ index > Len(doc.candidates) /\ phase' = SelectionVerdict
    BY <1>5 DEF ValidateSelection
  <2>2. intact => phase' = "accepted"
    BY <2>1, VerdictOfNegotiated DEF ValidationInv
  <2>3. QED
    BY <2>1, <2>2 DEF NegotiatedInv, Derived, IsFirstAmong, AllValid
<1>6. CASE UNCHANGED vars
  BY <1>6 DEF vars, NegotiatedInv, Derived, IsFirstAmong, AllValid
<1>7. QED
  BY <1>1, <1>2, <1>3, <1>4, <1>5, <1>6 DEF Next

(* The two loops agree for any number of candidates: what is derived from  *)
(* valid receipts keeps them all and passes validate.                      *)
THEOREM NegotiatedAccepted == Spec => []NegotiatedIsNeverRejected
<1>1. Init => ValidationInv /\ NegotiatedInv
  <2> SUFFICES ASSUME Init PROVE ValidationInv /\ NegotiatedInv
    OBVIOUS
  <2>1. /\ doc.v1 = TRUE /\ doc.candidates = <<>> /\ doc.selection = Absent
        /\ Len(doc.candidates) = 0 /\ phase = "negotiating"
    BY DEF Init
  <2>2. Len(receipts) \in Nat
    BY BoundAssumption DEF Init
  <2>3. NegotiatedInv
    BY <2>1, <2>2 DEF NegotiatedInv, Derived
  <2>4. ValidationInv
    BY DEF Init, ValidationInv, AcceptedFollowsFromReceipts
  <2>5. QED
    BY <2>3, <2>4
<1>2. TypeOK /\ ValidationInv /\ NegotiatedInv /\ [Next]_vars => (ValidationInv /\ NegotiatedInv)'
  BY ValidationStep, NegotiatedStep
<1>3. TypeOK /\ NegotiatedInv => NegotiatedIsNeverRejected
  <2> SUFFICES ASSUME TypeOK, NegotiatedInv, intact, AllValid
               PROVE  /\ phase \in {"negotiating", "sent", "validating", "accepted"}
                      /\ phase # "negotiating" =>
                           /\ Len(doc.candidates) = Len(receipts)
                           /\ \A k \in DOMAIN receipts : doc.candidates[k].receipt = receipts[k]
    BY DEF NegotiatedIsNeverRejected, AllValid
  <2>1. DOMAIN receipts = 1..Len(receipts)
    BY DEF TypeOK
  <2>2. QED
    BY <2>1 DEF NegotiatedInv, Derived
<1>4. QED
  BY <1>1, <1>2, <1>3, NegotiationTypeCorrect, PTL DEF Spec
=============================================================================
